---------------------------- MODULE Spec2Model ----------------------------
(***************************************************************************)
(* A model of momentera's EventPlanner (src/event_class.py): the calendar  *)
(* arithmetic (add_months, add_years), the upcoming_events sweep with its  *)
(* recurrence loop, and the event/task repository operations.              *)
(*                                                                         *)
(* The specifications share the variables:                                 *)
(*   CalSpec      - add_months / add_years applied to bounded inputs       *)
(*   SweepSpec    - one upcoming_events sweep over a stored repository     *)
(*   Spec         - the repository operations (create, edit, archive,      *)
(*                  tasks)                                                 *)
(*   SortSpec     - sort_tasks applied to bounded task lists               *)
(*   BudgetSpec   - the budget operations and view_event_budget_summary    *)
(*   DurationSpec - create_event with a duration, set_or_edit_duration     *)
(*   ReminderSpec - the operations that write reminder_days                 *)
(*   PersistSpec  - save_tasks and load_tasks                               *)
(*   SearchSpec   - add_tag, remove_tag and search_events by tag           *)
(*   TaskSpec     - archive_task, restore_archived_task and                *)
(*                  check_task_deadlines                                   *)
(***************************************************************************)
EXTENDS Integers, Sequences, FiniteSets, TLC

VARIABLES
    events,           \* self.events: the dict, as the sequence of its entries in insertion order
    archived_events,  \* self.archived_events, same representation
    today,            \* datetime.date.today() / datetime.datetime.now().date()
    msg,              \* what the last repository operation spoke (its outcome)
    file,             \* the lines of <username>_tasks.txt (NoFile while there is none)
    pc,               \* position of the running upcoming_events call
    idx,              \* position of the for loop in self.events.items()
    next_date,        \* upcoming_events: next_date
    limit_date,       \* upcoming_events: limit_date
    found,            \* upcoming_events: found
    out,              \* the notifications upcoming_events has spoken, in order
    n_dates,          \* how many dates the while loop has entered its body with, for the current event
    exc,              \* the exception that escaped the last repository operation ("" when it returned)
    summary,          \* the budget summary the last operation spoke, if any
    listed,           \* what the last operation listed (names found, tasks reported), in order
    cal_op,           \* CalSpec: which function was applied ("" before the call)
    cal_date,         \* CalSpec: the date argument
    cal_n,            \* CalSpec: the months / years argument
    cal_res           \* CalSpec: the call's result

vars == <<events, archived_events, today, msg, file, pc, idx, next_date, limit_date,
          found, out, n_dates, exc, summary, listed, cal_op, cal_date, cal_n, cal_res>>

repo_vars == <<events, archived_events, today, msg, file>>
sweep_vars == <<pc, idx, next_date, limit_date, found, out, n_dates>>
view_vars == <<exc, summary, listed>>
cal_vars == <<cal_op, cal_date, cal_n, cal_res>>

(***************************************************************************)
(* Bounds of the model.                                                    *)
(***************************************************************************)
MaxShift == 13      \* add_months / add_years are applied to n in -MaxShift..MaxShift
MaxInterval == 2    \* recurrence intervals entered or stored: up to MaxInterval
MaxTasks == 2       \* tasks alive in the repository (all events together) in Spec
MaxEvents == 2      \* events alive (active + archived) in Spec
MaxDates == 5       \* n_dates stops counting at MaxDates
MaxTags == 2        \* tags of one event in SearchSpec

(***************************************************************************)
(* datetime.date: a date object is [year, month, day]; the constructor     *)
(* raises ValueError outside year 1..9999 or for a day the month lacks.    *)
(***************************************************************************)
D(y, m, d) == [year |-> y, month |-> m, day |-> d]

NoDate == D(0, 0, 0)

IsLeap(year) == year % 4 = 0 /\ (year % 100 # 0 \/ year % 400 = 0)

\* The day table add_months builds for the target year.
MonthDays(year) ==
    <<31, IF IsLeap(year) THEN 29 ELSE 28, 31, 30, 31, 30, 31, 31, 30, 31, 30, 31>>

ValidDate(y, m, d) ==
    /\ y >= 1 /\ y <= 9999
    /\ m >= 1 /\ m <= 12
    /\ d >= 1 /\ d <= MonthDays(y)[m]

Ok(date) == [exc |-> "", date |-> date]
Raise(e) == [exc |-> e, date |-> NoDate]

\* datetime.date(year, month, day)
date_ctor(y, m, d) == IF ValidDate(y, m, d) THEN Ok(D(y, m, d)) ELSE Raise("ValueError")

Min(a, b) == IF a <= b THEN a ELSE b

\* A mutant of add_months: the result is the last day of the target month.
add_months_month_end(date, months) ==
    LET month0 == date.month - 1 + months
        year == date.year + (month0 \div 12)
        month == (month0 % 12) + 1
    IN  date_ctor(year, month, MonthDays(year)[month])

\* A mutant of add_months: the day is not clamped to the target month.
add_months_unclamped(date, months) ==
    LET month0 == date.month - 1 + months
        year == date.year + (month0 \div 12)
        month == (month0 % 12) + 1
    IN  date_ctor(year, month, date.day)

\* EventPlanner.add_months: the except branch repeats the same constructor call,
\* so a ValueError of the first call is raised again by the second.
add_months(date, months) ==
    LET month0 == date.month - 1 + months
        year == date.year + (month0 \div 12)
        month == (month0 % 12) + 1
        day == Min(date.day, MonthDays(year)[month])
        first == date_ctor(year, month, day)
    IN  IF first.exc = "" THEN first ELSE date_ctor(year, month, day)

\* A mutant of add_years: the fallback keeps the day (Feb 29) instead of Feb 28.
add_years_no_fallback(date, years) ==
    date_ctor(date.year + years, date.month, date.day)

\* EventPlanner.add_years: date.replace(year=...), and on ValueError
\* date.replace(month=2, day=28, year=...), whose own ValueError escapes.
add_years(date, years) ==
    LET first == date_ctor(date.year + years, date.month, date.day)
    IN  IF first.exc = "" THEN first ELSE date_ctor(date.year + years, 2, 28)

(***************************************************************************)
(* Date arithmetic of the datetime module, as upcoming_events uses it:     *)
(* (a - b).days, a <= b and date + timedelta(days=k), which raises         *)
(* OverflowError when the result leaves date.min..date.max.                *)
(***************************************************************************)
DaysBeforeYear(year) ==
    LET p == year - 1 IN p * 365 + (p \div 4) - (p \div 100) + (p \div 400)

RECURSIVE DaysBeforeMonth(_, _)
DaysBeforeMonth(year, month) ==
    IF month = 1 THEN 0
    ELSE DaysBeforeMonth(year, month - 1) + MonthDays(year)[month - 1]

\* date.toordinal(): 0001-01-01 is day 1.
ToOrdinal(date) ==
    DaysBeforeYear(date.year) + DaysBeforeMonth(date.year, date.month) + date.day

\* date.fromordinal(n), for 1 <= n <= date.max.toordinal().
FromOrdinal(n) ==
    LET n0 == n - 1
        n400 == n0 \div 146097
        r400 == n0 % 146097
        n100 == r400 \div 36524
        r100 == r400 % 36524
        n4 == r100 \div 1461
        r4 == r100 % 1461
        n1 == r4 \div 365
        r1 == r4 % 365
        year == n400 * 400 + n100 * 100 + n4 * 4 + n1 + 1
    IN  IF n1 = 4 \/ n100 = 4
        THEN D(year - 1, 12, 31)
        ELSE LET month == CHOOSE m \in 1..12 :
                            /\ DaysBeforeMonth(year, m) <= r1
                            /\ r1 < DaysBeforeMonth(year, m) + MonthDays(year)[m]
             IN  D(year, month, r1 - DaysBeforeMonth(year, month) + 1)

\* a < b and a <= b on date objects: by year, then month, then day.
date_lt(a, b) ==
    \/ a.year < b.year
    \/ a.year = b.year /\ a.month < b.month
    \/ a.year = b.year /\ a.month = b.month /\ a.day < b.day

date_le(a, b) == a = b \/ date_lt(a, b)

\* (a - b).days
DaysBetween(a, b) == ToOrdinal(a) - ToOrdinal(b)

\* date + datetime.timedelta(days=k)
date_plus_days(date, k) ==
    LET n == ToOrdinal(date) + k
    IN  IF n >= 1 /\ n <= ToOrdinal(D(9999, 12, 31)) THEN Ok(FromOrdinal(n))
        ELSE Raise("OverflowError")

(***************************************************************************)
(* Stored strings. A date field of an event holds a string: a "%Y-%m-%d"   *)
(* text with its three numbers, or any other text (the empty string, the   *)
(* 'No end' sentinel, None for a missing key).                             *)
(***************************************************************************)
Text(s) == [text |-> s, year |-> 0, month |-> 0, day |-> 0]
DateStr(date) == [text |-> "%Y-%m-%d", year |-> date.year, month |-> date.month, day |-> date.day]
EMPTY == Text("")
NONE == Text("None")
NO_END == Text("No end")

\* Python truthiness of a stored string or None.
Truthy(s) == s \notin {EMPTY, NONE}

\* datetime.datetime.strptime(s, "%Y-%m-%d").date(): ValueError unless s is the
\* text of a valid date.
strptime(s) ==
    IF s.text = "%Y-%m-%d" /\ ValidDate(s.year, s.month, s.day)
    THEN Ok(D(s.year, s.month, s.day))
    ELSE Raise("ValueError")

(***************************************************************************)
(* CalSpec: the two functions applied to bounded inputs.                   *)
(***************************************************************************)
CalYears == {1, 1900, 2000, 2023, 2024, 2100, 9999}
CalDays == {1, 28, 29, 30, 31}
CalDates == {D(y, m, d) : y \in CalYears, m \in 1..12, d \in CalDays}
                \cap {x \in [year : CalYears, month : 1..12, day : CalDays] :
                        ValidDate(x.year, x.month, x.day)}
CalShifts == (0 - MaxShift)..MaxShift

RepoIdle ==
    /\ events = <<>>
    /\ archived_events = <<>>
    /\ today = [year |-> 2024, month |-> 2, day |-> 25]
    /\ msg = <<>>

SweepIdle ==
    /\ pc = "idle"
    /\ idx = 0
    /\ next_date = NoDate
    /\ limit_date = NoDate
    /\ found = FALSE
    /\ out = <<>>
    /\ n_dates = 0

\* A line of the file: the text up to the value, and the value.
FileLine(key, val) == [key |-> key, val |-> val]

\* There is no <username>_tasks.txt: open() raises FileNotFoundError.
NoFile == <<FileLine("(no file)", "")>>

ViewIdle ==
    /\ exc = ""
    /\ summary = <<>>
    /\ listed = <<>>
    /\ file = NoFile

CalIdle ==
    /\ cal_op = ""
    /\ cal_date = NoDate
    /\ cal_n = 0
    /\ cal_res = Ok(NoDate)

CalInit ==
    /\ RepoIdle
    /\ SweepIdle
    /\ ViewIdle
    /\ cal_op = ""
    /\ cal_date \in CalDates
    /\ cal_n \in CalShifts
    /\ cal_res = Ok(NoDate)

CallAddMonths ==
    /\ cal_op = ""
    /\ cal_op' = "add_months"
    /\ cal_res' = add_months(cal_date, cal_n)
    /\ UNCHANGED <<cal_date, cal_n, repo_vars, sweep_vars, view_vars>>

CallAddYears ==
    /\ cal_op = ""
    /\ cal_op' = "add_years"
    /\ cal_res' = add_years(cal_date, cal_n)
    /\ UNCHANGED <<cal_date, cal_n, repo_vars, sweep_vars, view_vars>>

CalNext == CallAddMonths \/ CallAddYears

CalSpec == CalInit /\ [][CalNext]_vars

(***************************************************************************)
(* Stored events. An entry of the dict is [name, date, recurrence, tasks,  *)
(* archived_tasks]; recurrence is the stored dict read with the defaults   *)
(* upcoming_events gives its .get calls (interval 1, until None).          *)
(***************************************************************************)
\* The date the model runs on.
Today0 == D(2024, 2, 25)

\* valid_freqs of get_recurrence, the frequencies upcoming_events advances by.
Frequencies == {"daily", "weekly", "monthly", "yearly"}

NoRecurrence == [enabled |-> FALSE, frequency |-> "", interval |-> 1, until |-> NONE]

Recurrence(freq, interval, until) ==
    [enabled |-> TRUE, frequency |-> freq, interval |-> interval, until |-> until]

\* A budget value: a float (whole rupees here), None (what _input_valid_float
\* returns after five refused entries) or a string that float() cannot read.
Num(n) == [kind |-> "float", v |-> n]
NoneBudget == [kind |-> "None", v |-> 0]
StrBudget == [kind |-> "str", v |-> 0]

\* A time-of-day value: the "%H:%M" text entered, as minutes since midnight; ""
\* (no duration set); None (what _input_valid_time returns after five refused
\* entries).
Time(h, m) == [text |-> "%H:%M", minutes |-> 60 * h + m]
NoTime == [text |-> "", minutes |-> 0]
NoneTime == [text |-> "None", minutes |-> 0]

\* A stored reminder_days: an int, or None.
Days(n) == [kind |-> "int", v |-> n]
NoneDays == [kind |-> "None", v |-> 0]

EventWith(name, date, recurrence, tasks, archived, budget, start_time, end_time) ==
    [name |-> name, date |-> date, recurrence |-> recurrence,
     tasks |-> tasks, archived_tasks |-> archived,
     budget |-> budget, start_time |-> start_time, end_time |-> end_time,
     tags |-> <<>>, reminder_days |-> Days(0)]

\* An event with budget 0 and no duration.
Event(name, date, recurrence, tasks, archived) ==
    EventWith(name, date, recurrence, tasks, archived, Num(0), NoTime, NoTime)

(***************************************************************************)
(* The two dicts. A dict is the sequence of its entries in insertion       *)
(* order, each entry carrying its key in the name field.                   *)
(***************************************************************************)
Keys(d) == {d[i].name : i \in DOMAIN d}

Has(d, name) == name \in Keys(d)

IndexOf(d, name) == CHOOSE i \in DOMAIN d : d[i].name = name

Lookup(d, name) == d[IndexOf(d, name)]

\* d.pop(name): the entry leaves, the others keep their order.
dict_pop(d, name) == SelectSeq(d, LAMBDA e : e.name # name)

\* d[name] = e: an existing key keeps its place and gets the new value, a new key
\* goes to the end.
dict_set(d, name, e) ==
    IF Has(d, name)
    THEN [d EXCEPT ![IndexOf(d, name)] = [e EXCEPT !.name = name]]
    ELSE Append(d, [e EXCEPT !.name = name])

RECURSIVE SumLen(_, _)
SumLen(d, i) ==
    IF i > Len(d) THEN 0
    ELSE Len(d[i].tasks) + Len(d[i].archived_tasks) + SumLen(d, i + 1)

EventsAlive == Len(events) + Len(archived_events)
TasksAlive == SumLen(events, 1) + SumLen(archived_events, 1)

(***************************************************************************)
(* Input helpers.                                                          *)
(***************************************************************************)
\* _input_valid_date returns only a text that parses as a date and is not before
\* today: every other entry ("none" and the empty string included, which
\* _input_valid refuses as a date) is asked again.
input_valid_date(s) ==
    /\ strptime(s).exc = ""
    /\ ~date_lt(strptime(s).date, today)

\* What the user may type at a date prompt.
EnteredDates ==
    {DateStr(D(2024, 2, 20)), DateStr(D(2024, 2, 25)), DateStr(D(2024, 3, 1)), EMPTY}

\* get_recurrence: {"enabled": False}, or an enabled rule with a valid frequency
\* ("weekly" after three invalid entries), an interval >= 1 (1 for an invalid
\* entry) and the until date _input_valid_date returned.
get_recurrence(is_recurring, freq, interval, until) ==
    IF ~is_recurring THEN NoRecurrence
    ELSE Recurrence(IF freq \in Frequencies THEN freq ELSE "weekly",
                    IF interval < 1 THEN 1 ELSE interval,
                    until)

EnteredRecurrences ==
    {get_recurrence(r, f, i, u) :
        r \in BOOLEAN, f \in {"fortnightly"}, i \in {0},
        u \in {x \in EnteredDates : input_valid_date(x)}}

TaskFull(text, deadline, budget, priority, status) ==
    [task |-> text, deadline |-> deadline, budget |-> budget,
     priority |-> priority, status |-> status]

\* A task with priority Medium and status Pending.
TaskWith(text, deadline, budget) == TaskFull(text, deadline, budget, "Medium", "Pending")

\* A task with budget 0.
Task(text, deadline) == TaskWith(text, deadline, Num(0))

\* A mutant of checked_deadline: the recurring exemption is missing.
checked_deadline_strict(e, deadline) ==
    IF ~Truthy(deadline) THEN deadline
    ELSE IF strptime(deadline).exc # "" \/ strptime(e.date).exc # "" THEN EMPTY
    ELSE IF date_lt(strptime(e.date).date, strptime(deadline).date)
    THEN EMPTY
    ELSE deadline

\* The deadline block of add_tasks and of edit_task: the deadline is kept unless
\* a date fails to parse, or the event is not recurring and the deadline is after
\* the event date; then it becomes "".
checked_deadline(e, deadline) ==
    IF ~Truthy(deadline) THEN deadline
    ELSE IF strptime(deadline).exc # "" \/ strptime(e.date).exc # "" THEN EMPTY
    ELSE IF /\ ~e.recurrence.enabled
            /\ date_lt(strptime(e.date).date, strptime(deadline).date)
    THEN EMPTY
    ELSE deadline

DeadlineWarning == "Deadline must be on or before event date unless event is recurring."

(***************************************************************************)
(* Repository operations. msg is what the operation spoke.                 *)
(***************************************************************************)
Names == {"a", "b"}

\* A mutant of create_event_with: a name that is already active is not refused,
\* the entry is written again over the existing event.
create_event_overwrite(name, date, recurrence, budget, start_time, end_time) ==
    /\ IF name = ""
       THEN /\ msg' = <<"Event name cannot be empty.">>
            /\ UNCHANGED events
       ELSE IF Has(events, name)
       THEN /\ events' = dict_set(events, name,
                    EventWith(name, Lookup(events, name).date, recurrence, <<>>, <<>>,
                              budget, start_time, end_time))
            /\ msg' = <<"Event already exists.">>
       ELSE /\ EventsAlive < MaxEvents
            /\ input_valid_date(date)
            /\ events' = dict_set(events, name,
                    EventWith(name, date, recurrence, <<>>, <<>>, budget, start_time, end_time))
            /\ msg' = <<"Event created!">>
    /\ exc' = ""
    /\ summary' = <<>>
    /\ listed' = <<>>
    /\ UNCHANGED <<archived_events, today, file, sweep_vars, cal_vars>>

\* EventPlanner.create_event: budget is what _input_valid_float returned,
\* start_time and end_time what _input_valid_time returned ("" for both when
\* "Set start/end time now?" was answered no), reminder_days what
\* _input_valid_int returned.
create_event_full(name, date, recurrence, budget, start_time, end_time, reminder_days) ==
    /\ IF name = ""
       THEN /\ msg' = <<"Event name cannot be empty.">>
            /\ UNCHANGED events
       ELSE IF Has(events, name)
       THEN /\ msg' = <<"Event already exists.">>
            /\ UNCHANGED events
       ELSE /\ EventsAlive < MaxEvents
            /\ input_valid_date(date)
            /\ events' = dict_set(events, name,
                    [EventWith(name, date, recurrence, <<>>, <<>>, budget, start_time, end_time)
                        EXCEPT !.reminder_days = reminder_days])
            /\ msg' = <<"Event created!">>
    /\ exc' = ""
    /\ summary' = <<>>
    /\ listed' = <<>>
    /\ UNCHANGED <<archived_events, today, file, sweep_vars, cal_vars>>

\* EventPlanner.create_event with 0 entered at the reminder prompt
create_event_with(name, date, recurrence, budget, start_time, end_time) ==
    create_event_full(name, date, recurrence, budget, start_time, end_time, Days(0))

\* EventPlanner.create_event with budget 0 entered and no duration set
create_event(name, date, recurrence) ==
    create_event_with(name, date, recurrence, Num(0), NoTime, NoTime)

\* EventPlanner.delete_event, the confirmation answered yes
delete_event(name) ==
    /\ IF Has(events, name)
       THEN /\ events' = dict_pop(events, name)
            /\ msg' = <<"Event deleted.">>
       ELSE /\ msg' = <<"Event not found.">>
            /\ UNCHANGED events
    /\ exc' = ""
    /\ summary' = <<>>
    /\ listed' = <<>>
    /\ UNCHANGED <<archived_events, today, file, sweep_vars, cal_vars>>

\* A mutant of edit_event_name: the event is stored under the new name and the
\* old entry is not popped.
edit_event_name_copy(name, new_name) ==
    /\ Has(events, name)
    /\ IF new_name = ""
       THEN /\ msg' = <<"Event name cannot be empty.">>
            /\ UNCHANGED events
       ELSE IF Has(events, new_name)
       THEN /\ msg' = <<"Event with that name already exists.">>
            /\ UNCHANGED events
       ELSE /\ events' = dict_set(events, new_name, Lookup(events, name))
            /\ msg' = <<>>
    /\ exc' = ""
    /\ summary' = <<>>
    /\ listed' = <<>>
    /\ UNCHANGED <<archived_events, today, file, sweep_vars, cal_vars>>

\* EventPlanner.edit_event, option 1 (Name)
edit_event_name(name, new_name) ==
    /\ Has(events, name)
    /\ IF new_name = ""
       THEN /\ msg' = <<"Event name cannot be empty.">>
            /\ UNCHANGED events
       ELSE IF Has(events, new_name)
       THEN /\ msg' = <<"Event with that name already exists.">>
            /\ UNCHANGED events
       ELSE /\ events' = dict_set(dict_pop(events, name), new_name, Lookup(events, name))
            /\ msg' = <<>>
    /\ exc' = ""
    /\ summary' = <<>>
    /\ listed' = <<>>
    /\ UNCHANGED <<archived_events, today, file, sweep_vars, cal_vars>>

\* EventPlanner.edit_event, option 2 (Date)
edit_event_date(name, date) ==
    /\ Has(events, name)
    /\ input_valid_date(date)
    /\ events' = [events EXCEPT ![IndexOf(events, name)].date = date]
    /\ msg' = <<>>
    /\ exc' = ""
    /\ summary' = <<>>
    /\ listed' = <<>>
    /\ UNCHANGED <<archived_events, today, file, sweep_vars, cal_vars>>

\* EventPlanner.edit_event, option 12 (Recurrence)
edit_event_recurrence(name, recurrence) ==
    /\ Has(events, name)
    /\ events' = [events EXCEPT ![IndexOf(events, name)].recurrence = recurrence]
    /\ msg' = <<>>
    /\ exc' = ""
    /\ summary' = <<>>
    /\ listed' = <<>>
    /\ UNCHANGED <<archived_events, today, file, sweep_vars, cal_vars>>

\* A mutant of archive_event: the event is copied to the archive and not popped.
archive_event_keep(name) ==
    /\ IF Has(events, name)
       THEN /\ archived_events' = dict_set(archived_events, name, Lookup(events, name))
            /\ msg' = <<"Event archived.">>
            /\ UNCHANGED events
       ELSE /\ msg' = <<"Event not found.">>
            /\ UNCHANGED <<events, archived_events>>
    /\ exc' = ""
    /\ summary' = <<>>
    /\ listed' = <<>>
    /\ UNCHANGED <<today, file, sweep_vars, cal_vars>>

\* EventPlanner.manage_event_archive, choice 1 (Archive Event)
archive_event(name) ==
    /\ IF Has(events, name)
       THEN /\ archived_events' = dict_set(archived_events, name, Lookup(events, name))
            /\ events' = dict_pop(events, name)
            /\ msg' = <<"Event archived.">>
       ELSE /\ msg' = <<"Event not found.">>
            /\ UNCHANGED <<events, archived_events>>
    /\ exc' = ""
    /\ summary' = <<>>
    /\ listed' = <<>>
    /\ UNCHANGED <<today, file, sweep_vars, cal_vars>>

\* A mutant of restore_event: the test "name in self.events" is missing.
restore_event_unchecked(name) ==
    /\ IF ~Has(archived_events, name)
       THEN /\ msg' = <<"Not found.">>
            /\ UNCHANGED <<events, archived_events>>
       ELSE /\ events' = dict_set(events, name, Lookup(archived_events, name))
            /\ archived_events' = dict_pop(archived_events, name)
            /\ msg' = <<"Restored.">>
    /\ exc' = ""
    /\ summary' = <<>>
    /\ listed' = <<>>
    /\ UNCHANGED <<today, file, sweep_vars, cal_vars>>

\* EventPlanner.manage_event_archive, choice 3 (Restore Archived)
restore_event(name) ==
    /\ IF ~Has(archived_events, name)
       THEN /\ msg' = <<"Not found.">>
            /\ UNCHANGED <<events, archived_events>>
       ELSE IF Has(events, name)
       THEN /\ msg' = <<"Cannot restore. An event with this name already exists.">>
            /\ UNCHANGED <<events, archived_events>>
       ELSE /\ events' = dict_set(events, name, Lookup(archived_events, name))
            /\ archived_events' = dict_pop(archived_events, name)
            /\ msg' = <<"Restored.">>
    /\ exc' = ""
    /\ summary' = <<>>
    /\ listed' = <<>>
    /\ UNCHANGED <<today, file, sweep_vars, cal_vars>>

\* EventPlanner.add_tasks without task_list: one task, entered interactively;
\* budget is what _input_valid_float returned.
add_tasks_with(name, text, deadline, budget) ==
    /\ IF ~Has(events, name)
       THEN /\ msg' = <<"Event not found.">>
            /\ UNCHANGED events
       ELSE LET e == Lookup(events, name)
                kept == checked_deadline(e, deadline)
            IN  /\ TasksAlive < MaxTasks
                /\ input_valid_date(deadline)
                /\ events' = [events EXCEPT ![IndexOf(events, name)].tasks =
                                                Append(@, TaskWith(text, kept, budget))]
                /\ msg' = IF kept = deadline THEN <<"Task added.">>
                          ELSE <<DeadlineWarning, "Task added.">>
    /\ exc' = ""
    /\ summary' = <<>>
    /\ listed' = <<>>
    /\ UNCHANGED <<archived_events, today, file, sweep_vars, cal_vars>>

\* EventPlanner.add_tasks without task_list, budget 0 entered
add_tasks(name, text, deadline) == add_tasks_with(name, text, deadline, Num(0))

\* EventPlanner.add_tasks with task_list: every dict is appended as it is, a missing
\* deadline as "".
add_tasks_batch(name, task_list) ==
    /\ IF ~Has(events, name)
       THEN /\ msg' = <<"Event not found.">>
            /\ UNCHANGED events
       ELSE /\ TasksAlive + Len(task_list) <= MaxTasks
            /\ events' = [events EXCEPT ![IndexOf(events, name)].tasks = @ \o task_list]
            /\ msg' = <<"Tasks added.">>
    /\ exc' = ""
    /\ summary' = <<>>
    /\ listed' = <<>>
    /\ UNCHANGED <<archived_events, today, file, sweep_vars, cal_vars>>

\* EventPlanner.edit_task, task number index, option 2 (Deadline)
edit_task_deadline(name, index, deadline) ==
    /\ Has(events, name)
    /\ LET e == Lookup(events, name)
           kept == checked_deadline(e, deadline)
       IN  IF e.tasks = <<>>
           THEN /\ msg' = <<"No tasks to edit.">>
                /\ UNCHANGED events
           ELSE IF index < 1 \/ index > Len(e.tasks)
           THEN /\ msg' = <<"Invalid task number.">>
                /\ UNCHANGED events
           ELSE /\ input_valid_date(deadline)
                /\ events' = [events EXCEPT ![IndexOf(events, name)].tasks[index].deadline = kept]
                /\ msg' = IF kept = deadline THEN <<>> ELSE <<DeadlineWarning>>
    /\ exc' = ""
    /\ summary' = <<>>
    /\ listed' = <<>>
    /\ UNCHANGED <<archived_events, today, file, sweep_vars, cal_vars>>

BatchDeadlines == {EMPTY, DateStr(D(2024, 2, 25)), DateStr(D(2024, 3, 1))}

Init ==
    /\ events = <<>>
    /\ archived_events = <<>>
    /\ today = Today0
    /\ msg = <<>>
    /\ SweepIdle
    /\ CalIdle
    /\ ViewIdle

\* The inputs of an operation are drawn only where the operation reads them: a
\* rejected call does not get as far as its prompts.
Next ==
    \/ \E name \in Names \cup {""} :
          IF name = "" \/ Has(events, name)
          THEN create_event(name, EMPTY, NoRecurrence)
          ELSE \E date \in EnteredDates, r \in EnteredRecurrences : create_event(name, date, r)
    \/ \E name \in Names : delete_event(name)
    \/ \E name \in Names, new_name \in Names \cup {""} : edit_event_name(name, new_name)
    \/ \E name \in Names, date \in EnteredDates : edit_event_date(name, date)
    \/ \E name \in Names, r \in EnteredRecurrences : edit_event_recurrence(name, r)
    \/ \E name \in Names : archive_event(name)
    \/ \E name \in Names : restore_event(name)
    \/ \E name \in Names :
          IF ~Has(events, name)
          THEN add_tasks(name, "t", EMPTY)
          ELSE \E deadline \in EnteredDates : add_tasks(name, "t", deadline)
    \/ \E name \in Names :
          IF ~Has(events, name)
          THEN add_tasks_batch(name, <<>>)
          ELSE \E deadline \in BatchDeadlines : add_tasks_batch(name, <<Task("t", deadline)>>)
    \/ \E name \in Names, index \in 0..(MaxTasks + 1) :
          IF Has(events, name) /\ index \in DOMAIN Lookup(events, name).tasks
          THEN \E deadline \in EnteredDates : edit_task_deadline(name, index, deadline)
          ELSE edit_task_deadline(name, index, EMPTY)

Spec == Init /\ [][Next]_vars

(***************************************************************************)
(* upcoming_events.                                                        *)
(***************************************************************************)
\* A mutant of InWindow: the upper bound is exclusive.
InWindow_exclusive(date) ==
    0 <= DaysBetween(date, today) /\ DaysBetween(date, today) < 7

\* 0 <= (date - today).days <= 7
InWindow(date) ==
    0 <= DaysBetween(date, today) /\ DaysBetween(date, today) <= 7

\* A mutant of Advance: an unrecognized frequency advances like "daily".
Advance_unknown_as_daily(freq, date, interval) ==
    CASE freq = "weekly" -> date_plus_days(date, 7 * interval)
      [] freq = "monthly" -> add_months(date, interval)
      [] freq = "yearly" -> add_years(date, interval)
      [] OTHER -> date_plus_days(date, interval)

\* A mutant of Advance: timedelta(weeks=interval) is taken as interval days.
Advance_weeks_as_days(freq, date, interval) ==
    CASE freq = "daily" -> date_plus_days(date, interval)
      [] freq = "weekly" -> date_plus_days(date, interval)
      [] freq = "monthly" -> add_months(date, interval)
      [] freq = "yearly" -> add_years(date, interval)
      [] OTHER -> Raise("break")

\* The if/elif chain that advances next_date; exc = "break" is its else branch.
Advance(freq, date, interval) ==
    CASE freq = "daily" -> date_plus_days(date, interval)
      [] freq = "weekly" -> date_plus_days(date, 7 * interval)
      [] freq = "monthly" -> add_months(date, interval)
      [] freq = "yearly" -> add_years(date, interval)
      [] OTHER -> Raise("break")

\* limit_date: strptime(until) if until else today + timedelta(days=365)
LimitDate(until) ==
    IF Truthy(until) THEN strptime(until) ELSE date_plus_days(today, 365)

Notification(name, date, recurring) ==
    [name |-> name, date |-> date, recurring |-> recurring]

\* A mutant of Report: the break is missing, so the loop goes on to advance.
Report_no_break(e) ==
    LET adv == Advance(e.recurrence.frequency, next_date, e.recurrence.interval)
    IN  /\ out' = Append(out, Notification(e.name, next_date, TRUE))
        /\ found' = TRUE
        /\ IF adv.exc = ""
           THEN next_date' = adv.date /\ UNCHANGED <<pc, idx>>
           ELSE pc' = "for" /\ idx' = idx + 1 /\ UNCHANGED next_date
        /\ n_dates' = Min(n_dates + 1, MaxDates)
        /\ UNCHANGED limit_date

\* The body of "if 0 <= (next_date - today).days <= 7": speak, found = True, break.
Report(e) ==
    /\ out' = Append(out, Notification(e.name, next_date, TRUE))
    /\ found' = TRUE
    /\ pc' = "for"
    /\ idx' = idx + 1
    /\ n_dates' = Min(n_dates + 1, MaxDates)
    /\ UNCHANGED <<next_date, limit_date>>

\* The call starts: found = False, the for loop is at the first entry.
upcoming_events_begin ==
    /\ pc = "idle"
    /\ pc' = "for"
    /\ idx' = 1
    /\ found' = FALSE
    /\ out' = <<>>
    /\ n_dates' = 0
    /\ UNCHANGED <<next_date, limit_date, repo_vars, cal_vars, view_vars>>

\* One entry of the for loop up to the while loop: any exception is caught and the
\* loop continues with the next entry.
for_event ==
    /\ pc = "for"
    /\ idx <= Len(events)
    /\ LET e == events[idx]
           base == strptime(e.date)
           limit == LimitDate(e.recurrence.until)
       IN  IF base.exc # ""
           THEN /\ idx' = idx + 1
                /\ UNCHANGED <<pc, next_date, limit_date, found, out>>
           ELSE IF ~e.recurrence.enabled
           THEN /\ idx' = idx + 1
                /\ IF InWindow(base.date)
                   THEN /\ out' = Append(out, Notification(e.name, base.date, FALSE))
                        /\ found' = TRUE
                   ELSE UNCHANGED <<out, found>>
                /\ UNCHANGED <<pc, next_date, limit_date>>
           ELSE IF limit.exc # ""
           THEN /\ idx' = idx + 1
                /\ UNCHANGED <<pc, next_date, limit_date, found, out>>
           ELSE /\ pc' = "while"
                /\ next_date' = base.date
                /\ limit_date' = limit.date
                /\ UNCHANGED <<idx, found, out>>
    /\ n_dates' = 0
    /\ UNCHANGED <<repo_vars, cal_vars, view_vars>>

\* One test of "while next_date <= limit_date" and one pass of its body.
while_step ==
    /\ pc = "while"
    /\ LET e == events[idx]
           adv == Advance(e.recurrence.frequency, next_date, e.recurrence.interval)
       IN  IF ~date_le(next_date, limit_date)
           THEN /\ pc' = "for"
                /\ idx' = idx + 1
                /\ UNCHANGED <<next_date, limit_date, found, out, n_dates>>
           ELSE IF InWindow(next_date)
           THEN Report(e)
           ELSE IF adv.exc # ""
           THEN /\ pc' = "for"
                /\ idx' = idx + 1
                /\ n_dates' = Min(n_dates + 1, MaxDates)
                /\ UNCHANGED <<next_date, limit_date, found, out>>
           ELSE /\ next_date' = adv.date
                /\ n_dates' = Min(n_dates + 1, MaxDates)
                /\ UNCHANGED <<pc, idx, limit_date, found, out>>
    /\ UNCHANGED <<repo_vars, cal_vars, view_vars>>

\* The for loop is exhausted; "No upcoming events." is spoken if not found.
for_end ==
    /\ pc = "for"
    /\ idx > Len(events)
    /\ pc' = "done"
    /\ UNCHANGED <<idx, next_date, limit_date, found, out, n_dates, repo_vars, cal_vars, view_vars>>

(***************************************************************************)
(* SweepSpec: one sweep over a stored state. The stored rules are what     *)
(* create_event writes and what load_tasks reads back from a file          *)
(* (ast.literal_eval of the Recurrence line), valid or not.                *)
(***************************************************************************)
SweepBases ==
    {DateStr(D(2024, 2, 25)), DateStr(D(2024, 3, 3)), DateStr(D(2024, 3, 4)),
     DateStr(D(2024, 2, 24)), DateStr(D(2024, 1, 31)), DateStr(D(2023, 2, 20)),
     DateStr(D(2020, 2, 29)), DateStr(D(2025, 3, 1)), EMPTY}

SweepUntils ==
    {NONE, NO_END, DateStr(D(2024, 2, 27)), DateStr(D(2024, 12, 31)), DateStr(D(2023, 1, 1))}

SweepRules ==
    ((Frequencies \cup {"hourly"}) \X (0..MaxInterval))
        \cup {<<"yearly", -1>>, <<"daily", -100000>>}

SweepRecurrences ==
    {NoRecurrence} \cup
    {Recurrence(r[1], r[2], u) : r \in SweepRules, u \in SweepUntils}

SweepSecond ==
    {Event("b", DateStr(D(2024, 2, 26)), NoRecurrence, <<>>, <<>>),
     Event("b", DateStr(D(2024, 2, 11)), Recurrence("weekly", 1, NONE), <<>>, <<>>)}

SweepInit ==
    /\ \E d \in SweepBases, r \in SweepRecurrences, e2 \in SweepSecond :
          events = <<Event("a", d, r, <<>>, <<>>), e2>>
    /\ archived_events = <<Event("z", DateStr(D(2024, 2, 26)), NoRecurrence, <<>>, <<>>)>>
    /\ today = Today0
    /\ msg = <<>>
    /\ SweepIdle
    /\ CalIdle
    /\ ViewIdle

SweepNext == upcoming_events_begin \/ for_event \/ while_step \/ for_end

\* The call runs on one thread with nothing to wait for: a step that is possible
\* is taken.
SweepSpec == SweepInit /\ [][SweepNext]_vars /\ WF_vars(SweepNext)

(***************************************************************************)
(* DurationSpec: the start and end time of an event.                       *)
(***************************************************************************)
\* What _input_valid_time may return: an entry that parses as %H:%M, or None
\* after five refused entries.
EnteredTimes == {Time(9, 0), Time(10, 0), Time(23, 30), NoneTime}

\* datetime.datetime.strptime(t, "%H:%M").time(): TypeError for None.
strptime_time(t) ==
    IF t.text = "%H:%M" THEN [exc |-> "", minutes |-> t.minutes]
    ELSE IF t = NoneTime THEN [exc |-> "TypeError", minutes |-> 0]
    ELSE [exc |-> "ValueError", minutes |-> 0]

\* EventPlanner.set_or_edit_duration: start and end are what the two prompts
\* returned (the start and end arguments are overwritten by the prompts).
set_or_edit_duration(name, start, end) ==
    /\ IF name = "" \/ ~Has(events, name)
       THEN /\ msg' = <<IF name = "" THEN "Event name cannot be empty." ELSE "Event not found.">>
            /\ exc' = ""
            /\ UNCHANGED events
       ELSE IF strptime_time(start).exc # ""
       THEN /\ exc' = strptime_time(start).exc
            /\ msg' = <<>>
            /\ UNCHANGED events
       ELSE IF strptime_time(end).exc # ""
       THEN /\ exc' = strptime_time(end).exc
            /\ msg' = <<>>
            /\ UNCHANGED events
       ELSE IF strptime_time(end).minutes <= strptime_time(start).minutes
       THEN /\ msg' = <<"End time cannot be earlier than or equal to start time. Please enter valid times.">>
            /\ exc' = ""
            /\ UNCHANGED events
       ELSE /\ events' = [events EXCEPT ![IndexOf(events, name)].start_time = start,
                                        ![IndexOf(events, name)].end_time = end]
            /\ msg' = <<"Duration updated.">>
            /\ exc' = ""
    /\ summary' = <<>>
    /\ listed' = <<>>
    /\ UNCHANGED <<archived_events, today, file, sweep_vars, cal_vars>>

DurationInit == Init

DurationNext ==
    \/ \E name \in Names \cup {""} :
          IF name = "" \/ Has(events, name)
          THEN create_event(name, EMPTY, NoRecurrence)
          ELSE \/ create_event(name, DateStr(Today0), NoRecurrence)
               \/ \E start \in EnteredTimes, end \in EnteredTimes :
                     create_event_with(name, DateStr(Today0), NoRecurrence, Num(0), start, end)
    \/ \E name \in Names : delete_event(name)
    \/ \E name \in Names \cup {""} :
          IF name = "" \/ ~Has(events, name)
          THEN set_or_edit_duration(name, NoneTime, NoneTime)
          ELSE \E start \in EnteredTimes, end \in EnteredTimes :
                  set_or_edit_duration(name, start, end)

DurationSpec == DurationInit /\ [][DurationNext]_vars

(***************************************************************************)
(* sort_tasks.                                                             *)
(***************************************************************************)
MaxSortLen == 3     \* length of the task lists sort_tasks is applied to in SortSpec

\* A sort key: a number, None, or the exception the key function raised.
\* datetime keys are counted in days: a deadline is midnight of its date and
\* datetime.max, the last microsecond of 9999-12-31, is after every one of them.
Key(v) == [exc |-> "", none |-> FALSE, v |-> v]
NoneKey == [exc |-> "", none |-> TRUE, v |-> 0]
KeyError(e) == [exc |-> e, none |-> FALSE, v |-> 0]
DatetimeMax == ToOrdinal(D(9999, 12, 31)) + 1

\* A mutant of by_deadline: a task without a deadline gets datetime.min.
by_deadline_min(t) ==
    IF ~Truthy(t.deadline) THEN Key(0)
    ELSE IF strptime(t.deadline).exc = "" THEN Key(ToOrdinal(strptime(t.deadline).date))
    ELSE NoneKey

\* by_deadline: datetime.max without a deadline, the parsed deadline, None when
\* it does not parse.
by_deadline(t) ==
    IF ~Truthy(t.deadline) THEN Key(DatetimeMax)
    ELSE IF strptime(t.deadline).exc = "" THEN Key(ToOrdinal(strptime(t.deadline).date))
    ELSE NoneKey

\* by_priority: {"High": 0, "Medium": 1, "Low": 2}, 1 for anything else.
by_priority(t) ==
    Key(CASE t.priority = "High" -> 0 [] t.priority = "Low" -> 2 [] OTHER -> 1)

\* by_completed: the boolean status == "Completed" (False before True).
by_completed(t) == Key(IF t.status = "Completed" THEN 1 ELSE 0)

\* by_budget: -budget; the unary minus raises TypeError for None and for a string.
by_budget(t) ==
    IF t.budget.kind = "float" THEN Key(0 - t.budget.v) ELSE KeyError("TypeError")

sorter(option, t) ==
    CASE option = "1" -> by_deadline(t)
      [] option = "2" -> by_priority(t)
      [] option = "3" -> by_completed(t)
      [] OTHER -> by_budget(t)

\* One step of the insertion: p goes after every entry whose key is not greater.
InsertPair(s, p) ==
    LET pos == Cardinality({i \in DOMAIN s : s[i].k <= p.k})
    IN  SubSeq(s, 1, pos) \o <<p>> \o SubSeq(s, pos + 1, Len(s))

RECURSIVE InsertionSort(_)
InsertionSort(s) ==
    IF s = <<>> THEN <<>>
    ELSE InsertPair(InsertionSort(SubSeq(s, 1, Len(s) - 1)), s[Len(s)])

\* list.sort(key=...): the keys are computed first, for every entry; a key
\* function that raises ends the call with the list as it was. Two or more
\* entries are compared, and a None key makes the comparison raise TypeError;
\* the list is then left in an order the call does not define (up to three
\* entries CPython leaves it as it was). Otherwise the list is sorted, stable.
list_sort(l, option) ==
    LET keys == [i \in DOMAIN l |-> sorter(option, l[i])]
        pairs == [i \in DOMAIN l |-> [k |-> keys[i].v, item |-> l[i]]]
        sorted == InsertionSort(pairs)
    IN  IF \E i \in DOMAIN l : keys[i].exc # ""
        THEN {[exc |-> "TypeError", list |-> l]}
        ELSE IF Len(l) >= 2 /\ \E i \in DOMAIN l : keys[i].none
        THEN IF Len(l) <= 3
             THEN {[exc |-> "TypeError", list |-> l]}
             ELSE {[exc |-> "TypeError", list |-> [i \in DOMAIN l |-> l[f[i]]]] :
                       f \in Permutations(DOMAIN l)}
        ELSE {[exc |-> "", list |-> [i \in DOMAIN l |-> sorted[i].item]]}

InvalidDeadlineWarning == "Invalid deadline format for task. Using default placeholder."

\* What by_deadline speaks while the keys are computed.
sort_warnings(l, option) ==
    IF option = "1"
    THEN [i \in DOMAIN SelectSeq(l, LAMBDA t : by_deadline(t).none) |-> InvalidDeadlineWarning]
    ELSE <<>>

\* EventPlanner.sort_tasks: task_type and option are the two menu entries.
sort_tasks(name, task_type, option) ==
    /\ IF name = "" \/ ~Has(events, name)
       THEN /\ msg' = <<IF name = "" THEN "Event name cannot be empty." ELSE "Event not found.">>
            /\ exc' = ""
            /\ UNCHANGED events
       ELSE IF task_type \notin {"1", "2"}
       THEN /\ msg' = <<"Invalid option.">>
            /\ exc' = ""
            /\ UNCHANGED events
       ELSE LET e == Lookup(events, name)
                task_list == IF task_type = "1" THEN e.tasks ELSE e.archived_tasks
            IN  IF task_list = <<>>
                THEN /\ msg' = <<"No tasks to sort.">>
                     /\ exc' = ""
                     /\ UNCHANGED events
                ELSE IF option \notin {"1", "2", "3", "4"}
                THEN /\ msg' = <<"Invalid choice.">>
                     /\ exc' = ""
                     /\ UNCHANGED events
                ELSE \E r \in list_sort(task_list, option) :
                        /\ events' = IF task_type = "1"
                                     THEN [events EXCEPT ![IndexOf(events, name)].tasks = r.list]
                                     ELSE [events EXCEPT ![IndexOf(events, name)].archived_tasks = r.list]
                        /\ exc' = r.exc
                        /\ msg' = IF r.exc = ""
                                  THEN Append(sort_warnings(task_list, option), "Tasks sorted.")
                                  ELSE IF \E i \in DOMAIN task_list :
                                             sorter(option, task_list[i]).exc # ""
                                  THEN <<>>
                                  ELSE sort_warnings(task_list, option)
    /\ summary' = <<>>
    /\ listed' = <<>>
    /\ UNCHANGED <<archived_events, today, file, sweep_vars, cal_vars>>

(***************************************************************************)
(* SortSpec: sort_tasks applied to the task lists of one event. The tasks  *)
(* are what add_tasks stores: entered interactively, or the dicts of a     *)
(* task_list, which are stored as they come.                               *)
(***************************************************************************)
SortLabels == <<"t1", "t2", "t3", "t4">>

\* deadline, budget, priority, status of the tasks the lists are made of
SortKinds ==
    {<<DateStr(D(2024, 3, 1)), Num(5), "High", "Pending">>,
     <<DateStr(D(2024, 3, 1)), Num(0), "Low", "Completed">>,
     <<DateStr(D(9999, 12, 31)), Num(5), "Medium", "Pending">>,
     <<EMPTY, Num(9), "High", "Completed">>,
     <<EMPTY, Num(0), "Medium", "Pending">>,
     <<Text("soon"), Num(5), "Medium", "Pending">>,
     <<DateStr(D(2024, 3, 1)), NoneBudget, "Medium", "Pending">>,
     <<DateStr(D(9999, 12, 31)), StrBudget, "Low", "Pending">>}

SortLists ==
    UNION {{[i \in 1..n |-> TaskFull(SortLabels[i], ks[i][1], ks[i][2], ks[i][3], ks[i][4])] :
                ks \in [1..n -> SortKinds]} : n \in 0..MaxSortLen}

SortArchived ==
    <<TaskFull("x", EMPTY, Num(0), "Low", "Completed"),
      TaskFull("y", DateStr(D(2024, 3, 1)), Num(5), "High", "Pending")>>

SortInit ==
    /\ \E l \in SortLists :
          events = <<EventWith("a", DateStr(Today0), Recurrence("daily", 1, NONE), l,
                               SortArchived, Num(0), NoTime, NoTime)>>
    /\ archived_events = <<>>
    /\ today = Today0
    /\ msg = <<>>
    /\ SweepIdle
    /\ CalIdle
    /\ ViewIdle

SortNext ==
    \E name \in {"a", "b"}, task_type \in {"1", "2", "3"}, option \in {"1", "2", "3", "4", "5"} :
        sort_tasks(name, task_type, option)

SortSpec == SortInit /\ [][SortNext]_vars

(***************************************************************************)
(* Budgets. Amounts are whole rupees; the sums and differences the code    *)
(* takes of them are exact in floats.                                      *)
(***************************************************************************)
\* What _input_valid_float may return: a float >= 0 (a negative entry is asked
\* again), or None after five refused entries.
EnteredBudgets == {Num(0), Num(400), Num(800), Num(1000), NoneBudget}

\* The amount argument of set_event_budget: absent (None), or any value.
GivenAmounts == {NoneBudget, Num(1500), Num(0 - 5)}

\* The budgets of the dicts of a task_list.
BatchBudgets == {Num(400), StrBudget, NoneBudget}

\* float(budget): TypeError for None, ValueError for a string that is no number.
float(b) ==
    CASE b.kind = "float" -> [exc |-> "", v |-> b.v]
      [] b.kind = "None" -> [exc |-> "TypeError", v |-> 0]
      [] OTHER -> [exc |-> "ValueError", v |-> 0]

RECURSIVE SumBudgets(_)
\* The loop "total_task += float(t.get('budget', 0))" under "except ValueError":
\* the sum of the budgets float() reads, and the first other exception.
SumBudgets(tasks) ==
    IF tasks = <<>> THEN [exc |-> "", v |-> 0, skipped |-> 0]
    ELSE LET f == float(tasks[1].budget)
             rest == SumBudgets(Tail(tasks))
         IN  IF f.exc = "TypeError" THEN [exc |-> "TypeError", v |-> 0, skipped |-> 0]
             ELSE IF f.exc = "ValueError"
             THEN [rest EXCEPT !.skipped = IF rest.exc = "" THEN @ + 1 ELSE @]
             ELSE [rest EXCEPT !.v = IF rest.exc = "" THEN @ + f.v ELSE @]

\* A mutant of task_total: the archived tasks are summed as well.
task_total_with_archived(e) == SumBudgets(e.tasks \o e.archived_tasks)

\* view_event_budget_summary: the loop over e["tasks"].
task_total(e) == SumBudgets(e.tasks)

\* int((total_task / event_budget) * 100), then min(..., 999). The quotient of
\* the amounts used here is cut to its whole part.
used_percent(total, event_budget) == Min((total * 100) \div event_budget, 999)

\* EventPlanner.view_event_budget_summary
view_event_budget_summary(name) ==
    /\ IF name = "" \/ ~Has(events, name)
       THEN /\ msg' = <<IF name = "" THEN "Event name cannot be empty." ELSE "Event not found.">>
            /\ exc' = ""
            /\ summary' = <<>>
       ELSE LET e == Lookup(events, name)
                t == task_total(e)
            IN  IF t.exc # ""
                THEN /\ exc' = t.exc
                     /\ msg' = <<>>
                     /\ summary' = <<>>
                ELSE IF e.budget.kind # "float"
                THEN /\ exc' = "TypeError"
                     /\ msg' = <<>>
                     /\ summary' = <<>>
                ELSE /\ exc' = ""
                     /\ msg' = <<IF e.budget.v - t.v >= 0 THEN "Within budget." ELSE "Over budget.">>
                     /\ summary' = <<[event_budget |-> e.budget.v,
                                      total |-> t.v,
                                      remaining |-> e.budget.v - t.v,
                                      skipped |-> t.skipped,
                                      usage |-> IF e.budget.v > 0
                                                THEN <<used_percent(t.v, e.budget.v)>>
                                                ELSE <<>>]>>
    /\ listed' = <<>>
    /\ UNCHANGED <<events, archived_events, today, file, sweep_vars, cal_vars>>

\* EventPlanner.set_event_budget: amount is the argument (None when absent),
\* entered is what the prompt returns when it is asked.
set_event_budget(name, amount, entered) ==
    /\ IF name = "" \/ ~Has(events, name)
       THEN /\ msg' = <<IF name = "" THEN "Event name cannot be empty." ELSE "Event not found.">>
            /\ UNCHANGED events
       ELSE /\ events' = [events EXCEPT ![IndexOf(events, name)].budget =
                              IF amount = NoneBudget THEN entered ELSE amount]
            /\ msg' = <<"Budget updated.">>
    /\ exc' = ""
    /\ summary' = <<>>
    /\ listed' = <<>>
    /\ UNCHANGED <<archived_events, today, file, sweep_vars, cal_vars>>

\* EventPlanner.edit_event_budget
edit_event_budget(name, entered) ==
    /\ IF Has(events, name)
       THEN /\ events' = [events EXCEPT ![IndexOf(events, name)].budget = entered]
            /\ msg' = <<"Current budget is ... rupees.", "Budget updated.">>
       ELSE /\ msg' = <<"Event not found.">>
            /\ UNCHANGED events
    /\ exc' = ""
    /\ summary' = <<>>
    /\ listed' = <<>>
    /\ UNCHANGED <<archived_events, today, file, sweep_vars, cal_vars>>

\* EventPlanner.edit_event, option 8 (Budget)
edit_event_budget_option(name, entered) ==
    /\ Has(events, name)
    /\ events' = [events EXCEPT ![IndexOf(events, name)].budget = entered]
    /\ msg' = <<>>
    /\ exc' = ""
    /\ summary' = <<>>
    /\ listed' = <<>>
    /\ UNCHANGED <<archived_events, today, file, sweep_vars, cal_vars>>

\* EventPlanner.edit_task, option 5 (Budget): None leaves the budget as it is.
edit_task_budget(name, index, entered) ==
    /\ Has(events, name)
    /\ LET e == Lookup(events, name)
       IN  IF e.tasks = <<>>
           THEN /\ msg' = <<"No tasks to edit.">>
                /\ UNCHANGED events
           ELSE IF index < 1 \/ index > Len(e.tasks)
           THEN /\ msg' = <<"Invalid task number.">>
                /\ UNCHANGED events
           ELSE /\ events' = IF entered = NoneBudget THEN events
                             ELSE [events EXCEPT ![IndexOf(events, name)].tasks[index].budget = entered]
                /\ msg' = <<>>
    /\ exc' = ""
    /\ summary' = <<>>
    /\ listed' = <<>>
    /\ UNCHANGED <<archived_events, today, file, sweep_vars, cal_vars>>

\* EventPlanner.assign_budget_to_task: the budget is written, then the tasks are
\* summed and the total compared with the event budget.
assign_budget_to_task(name, index, entered) ==
    /\ IF name = "" \/ ~Has(events, name)
       THEN /\ msg' = <<IF name = "" THEN "Event name cannot be empty." ELSE "Event not found.">>
            /\ exc' = ""
            /\ UNCHANGED events
       ELSE LET e == Lookup(events, name)
                tasks2 == [e.tasks EXCEPT ![index].budget = entered]
                t == SumBudgets(tasks2)
            IN  IF e.tasks = <<>>
                THEN /\ msg' = <<"No tasks to assign budget.">>
                     /\ exc' = ""
                     /\ UNCHANGED events
                ELSE IF index < 1 \/ index > Len(e.tasks)
                THEN /\ msg' = <<"Invalid task number.">>
                     /\ exc' = ""
                     /\ UNCHANGED events
                ELSE IF entered = NoneBudget
                THEN /\ msg' = <<"Invalid budget input. Aborted.">>
                     /\ exc' = ""
                     /\ UNCHANGED events
                ELSE /\ events' = [events EXCEPT ![IndexOf(events, name)].tasks = tasks2]
                     /\ IF t.exc # "" \/ e.budget.kind # "float"
                        THEN exc' = "TypeError" /\ msg' = <<>>
                        ELSE /\ exc' = ""
                             /\ msg' = IF t.v > e.budget.v
                                       THEN <<"Warning: Task budgets exceed the event budget.",
                                              "Budget assigned.">>
                                       ELSE <<"Budget assigned.">>
    /\ summary' = <<>>
    /\ listed' = <<>>
    /\ UNCHANGED <<archived_events, today, file, sweep_vars, cal_vars>>

\* What is typed at a "which task?" prompt, after strip(): digits, read by int(),
\* or a text str.isdigit() refuses ("", "x", "-1").
Digits(n) == [isdigit |-> TRUE, int |-> n]
NotDigits == [isdigit |-> FALSE, int |-> 0]

\* t = src.pop(index); dst.append(t), with index counted from 0
pop_append(src, dst, index) ==
    [src |-> SubSeq(src, 1, index) \o SubSeq(src, index + 2, Len(src)),
     dst |-> Append(dst, src[index + 1])]

\* EventPlanner.archive_task
archive_task(name, index_input) ==
    /\ IF name = "" \/ ~Has(events, name)
       THEN /\ msg' = <<IF name = "" THEN "Event name cannot be empty." ELSE "Event not found.">>
            /\ UNCHANGED events
       ELSE LET e == Lookup(events, name)
                index == index_input.int - 1
                moved == pop_append(e.tasks, e.archived_tasks, index)
            IN  IF e.tasks = <<>>
                THEN /\ msg' = <<"No tasks to archive.">>
                     /\ UNCHANGED events
                ELSE IF ~index_input.isdigit
                THEN /\ msg' = <<"Please enter a number.">>
                     /\ UNCHANGED events
                ELSE IF index < 0 \/ index >= Len(e.tasks)
                THEN /\ msg' = <<"Invalid task number.">>
                     /\ UNCHANGED events
                ELSE /\ events' = [events EXCEPT
                            ![IndexOf(events, name)].tasks = moved.src,
                            ![IndexOf(events, name)].archived_tasks = moved.dst]
                     /\ msg' = <<"Task archived.">>
    /\ exc' = ""
    /\ summary' = <<>>
    /\ listed' = <<>>
    /\ UNCHANGED <<archived_events, today, file, sweep_vars, cal_vars>>

\* A mutant of restore_archived_task: the restored task is put first.
restore_archived_task_first(name, index_input) ==
    /\ Has(events, name)
    /\ index_input.isdigit
    /\ LET e == Lookup(events, name)
           index == index_input.int - 1
       IN  /\ index >= 0 /\ index < Len(e.archived_tasks)
           /\ events' = [events EXCEPT
                  ![IndexOf(events, name)].archived_tasks =
                      pop_append(e.archived_tasks, e.tasks, index).src,
                  ![IndexOf(events, name)].tasks = <<e.archived_tasks[index + 1]>> \o e.tasks]
           /\ msg' = <<"Task restored.">>
    /\ exc' = ""
    /\ summary' = <<>>
    /\ listed' = <<>>
    /\ UNCHANGED <<archived_events, today, file, sweep_vars, cal_vars>>

\* EventPlanner.restore_archived_task
restore_archived_task(name, index_input) ==
    /\ IF name = "" \/ ~Has(events, name)
       THEN /\ msg' = <<IF name = "" THEN "Event name cannot be empty." ELSE "Event not found.">>
            /\ UNCHANGED events
       ELSE LET e == Lookup(events, name)
                index == index_input.int - 1
                moved == pop_append(e.archived_tasks, e.tasks, index)
            IN  IF e.archived_tasks = <<>>
                THEN /\ msg' = <<"No archived tasks.">>
                     /\ UNCHANGED events
                ELSE IF ~index_input.isdigit
                THEN /\ msg' = <<"Please enter a number.">>
                     /\ UNCHANGED events
                ELSE IF index < 0 \/ index >= Len(e.archived_tasks)
                THEN /\ msg' = <<"Invalid task number.">>
                     /\ UNCHANGED events
                ELSE /\ events' = [events EXCEPT
                            ![IndexOf(events, name)].archived_tasks = moved.src,
                            ![IndexOf(events, name)].tasks = moved.dst]
                     /\ msg' = <<"Task restored.">>
    /\ exc' = ""
    /\ summary' = <<>>
    /\ listed' = <<>>
    /\ UNCHANGED <<archived_events, today, file, sweep_vars, cal_vars>>

\* A mutant of DueSoon: the window is the seven days of upcoming_events.
DueSoon_week(d) == 0 <= DaysBetween(d, today) /\ DaysBetween(d, today) <= 7

\* check_task_deadlines: 0 <= (d - today).days <= 3
DueSoon(d) == 0 <= DaysBetween(d, today) /\ DaysBetween(d, today) <= 3

RECURSIVE due_lines_of(_, _, _)
\* check_task_deadlines: "for t in e['tasks']", from task k on. An empty or None
\* deadline is passed over; an exception of strptime is caught.
due_lines_of(name, tasks, k) ==
    IF k > Len(tasks) THEN <<>>
    ELSE LET t == tasks[k]
             line == IF ~Truthy(t.deadline) THEN <<>>
                     ELSE IF strptime(t.deadline).exc # "" THEN <<>>
                     ELSE IF DueSoon(strptime(t.deadline).date)
                     THEN <<[task |-> t.task, name |-> name, deadline |-> t.deadline]>>
                     ELSE <<>>
         IN  line \o due_lines_of(name, tasks, k + 1)

RECURSIVE due_lines(_, _)
\* check_task_deadlines: "for name, e in self.events.items()", from entry i on
due_lines(d, i) ==
    IF i > Len(d) THEN <<>>
    ELSE due_lines_of(d[i].name, d[i].tasks, 1) \o due_lines(d, i + 1)

\* EventPlanner.check_task_deadlines
check_task_deadlines ==
    /\ listed' = due_lines(events, 1)
    /\ msg' = IF listed' = <<>>
              THEN <<"Tasks due in the next three days.", "No urgent tasks due.">>
              ELSE <<"Tasks due in the next three days.">>
    /\ exc' = ""
    /\ summary' = <<>>
    /\ UNCHANGED <<events, archived_events, today, file, sweep_vars, cal_vars>>

(***************************************************************************)
(* TaskSpec: the tasks of two events are archived, restored and scanned    *)
(* for deadlines. The stored tasks are what add_tasks stores; a task_list  *)
(* is stored with the deadlines it comes with.                             *)
(***************************************************************************)
TaskInit ==
    /\ \E l \in LET TaskDeadlines ==
                     {DateStr(Today0), DateStr(D(2024, 2, 28)), DateStr(D(2024, 2, 29)),
                      DateStr(D(2024, 2, 24)), EMPTY, NONE, Text("soon")}
               IN  {<<>>} \cup {<<Task("t1", d1)>> : d1 \in TaskDeadlines}
                          \cup {<<Task("t1", d1), Task("t2", d2)>> :
                                    d1 \in TaskDeadlines, d2 \in TaskDeadlines} :
          events = <<Event("a", DateStr(D(2024, 3, 1)), NoRecurrence, l,
                           <<Task("t3", DateStr(Today0))>>),
                     Event("b", DateStr(D(2024, 3, 1)), NoRecurrence,
                           <<Task("u1", DateStr(D(2024, 2, 28)))>>, <<>>)>>
    /\ archived_events = <<Event("z", DateStr(D(2024, 3, 1)), NoRecurrence,
                                 <<Task("z1", DateStr(Today0))>>, <<>>)>>
    /\ today = Today0
    /\ msg = <<>>
    /\ SweepIdle
    /\ CalIdle
    /\ ViewIdle

\* What is typed at the task number prompts.
IndexInputs == {Digits(n) : n \in 0..(MaxTasks + 2)} \cup {NotDigits}

TaskNext ==
    \/ \E name \in {"a", "b", "x", ""}, index_input \in IndexInputs : archive_task(name, index_input)
    \/ \E name \in {"a", "b", "x", ""}, index_input \in IndexInputs :
          restore_archived_task(name, index_input)
    \/ check_task_deadlines

TaskSpec == TaskInit /\ [][TaskNext]_vars

(***************************************************************************)
(* BudgetSpec: the operations that write or read a budget, on one event.   *)
(***************************************************************************)
BudgetInit == Init

BudgetNext ==
    \/ \E name \in {"a", ""} :
          IF name = "" \/ Has(events, name)
          THEN create_event(name, EMPTY, NoRecurrence)
          ELSE \E budget \in EnteredBudgets :
                  create_event_with(name, DateStr(Today0), Recurrence("daily", 1, NONE),
                                    budget, NoTime, NoTime)
    \/ delete_event("a")
    \/ \E name \in {"a", ""} :
          IF name = "" \/ ~Has(events, name)
          THEN set_event_budget(name, NoneBudget, NoneBudget)
          ELSE \E amount \in GivenAmounts :
                  IF amount = NoneBudget
                  THEN \E entered \in EnteredBudgets : set_event_budget(name, amount, entered)
                  ELSE set_event_budget(name, amount, NoneBudget)
    \/ IF Has(events, "a")
       THEN \E entered \in EnteredBudgets : edit_event_budget("a", entered)
       ELSE edit_event_budget("a", NoneBudget)
    \/ \E entered \in EnteredBudgets : edit_event_budget_option("a", entered)
    \/ \E budget \in EnteredBudgets : add_tasks_with("a", "t", DateStr(Today0), budget)
    \/ \E budget \in BatchBudgets : add_tasks_batch("a", <<TaskWith("t", DateStr(Today0), budget)>>)
    \/ \E index \in 0..MaxTasks :
          IF Has(events, "a") /\ index \in DOMAIN Lookup(events, "a").tasks
          THEN \E entered \in EnteredBudgets : edit_task_budget("a", index, entered)
          ELSE edit_task_budget("a", index, NoneBudget)
    \/ \E name \in {"a", ""}, index \in 0..MaxTasks :
          IF name = "a" /\ Has(events, "a") /\ index \in DOMAIN Lookup(events, "a").tasks
          THEN \E entered \in EnteredBudgets : assign_budget_to_task(name, index, entered)
          ELSE assign_budget_to_task(name, index, NoneBudget)
    \/ \E name \in {"a", ""}, index \in 0..MaxTasks : archive_task(name, Digits(index))
    \/ \E name \in {"a", ""} : view_event_budget_summary(name)

BudgetSpec == BudgetInit /\ [][BudgetNext]_vars

(***************************************************************************)
(* Tags and search_events. A tag is a str, modelled as the sequence of its *)
(* characters, so that case and containment are what they are in Python.   *)
(***************************************************************************)
\* str.lower() on one character of the alphabet used here
lower_char(c) ==
    CASE c = "V" -> "v"
      [] c = "I" -> "i"
      [] c = "P" -> "p"
      [] OTHER -> c

\* str.lower()
lower(str) == [i \in DOMAIN str |-> lower_char(str[i])]

RECURSIVE strip(_)
\* str.strip()
strip(str) ==
    IF str = <<>> THEN str
    ELSE IF Head(str) = " " THEN strip(Tail(str))
    ELSE IF str[Len(str)] = " " THEN strip(SubSeq(str, 1, Len(str) - 1))
    ELSE str

\* a in b, for two str
str_in(a, b) ==
    \E i \in 0..(Len(b) - Len(a)) : SubSeq(b, i + 1, i + Len(a)) = a

\* A mutant of tag_in_tags: a stored tag that contains the entered tag matches.
tag_in_tags_substring(tag, e) ==
    \E k \in DOMAIN e.tags : str_in(tag, lower(e.tags[k]))

\* tag in [t.lower() for t in e["tags"]]
tag_in_tags(tag, e) ==
    \E k \in DOMAIN e.tags : tag = lower(e.tags[k])

RECURSIVE found_by_tag(_, _, _)
\* search_events, option 2: the for loop over self.events.items() from entry i on,
\* with answers[i] typed at the "Enter tag: " prompt of entry i.
found_by_tag(d, answers, i) ==
    IF i > Len(d) THEN <<>>
    ELSE (IF tag_in_tags(lower(strip(answers[i])), d[i]) THEN <<d[i].name>> ELSE <<>>)
             \o found_by_tag(d, answers, i + 1)

\* EventPlanner.search_events with option "2" (by tag)
search_events_by_tag(answers) ==
    /\ listed' = found_by_tag(events, answers, 1)
    /\ msg' = IF listed' # <<>> THEN <<"Here are your matching events.">>
              ELSE <<"No matches found.">>
    /\ exc' = ""
    /\ summary' = <<>>
    /\ UNCHANGED <<events, archived_events, today, file, sweep_vars, cal_vars>>

\* EventPlanner.add_tag
add_tag(name, entered) ==
    /\ IF Has(events, name)
       THEN LET tag == lower(strip(entered))
                e == Lookup(events, name)
            IN  /\ Len(e.tags) < MaxTags
                /\ events' = IF tag_in_tags(tag, e) THEN events
                             ELSE [events EXCEPT ![IndexOf(events, name)].tags = Append(@, tag)]
       ELSE UNCHANGED events
    /\ msg' = <<>>
    /\ exc' = ""
    /\ summary' = <<>>
    /\ listed' = <<>>
    /\ UNCHANGED <<archived_events, today, file, sweep_vars, cal_vars>>

\* EventPlanner.remove_tag; list.remove(x): the first entry equal to x leaves
remove_tag(name, entered) ==
    /\ IF Has(events, name)
       THEN LET tag == lower(strip(entered))
                e == Lookup(events, name)
                list_remove(l, x) ==
                    LET k == CHOOSE i \in DOMAIN l : l[i] = x /\ \A j \in 1..(i - 1) : l[j] # x
                    IN  SubSeq(l, 1, k - 1) \o SubSeq(l, k + 1, Len(l))
            IN  IF \E k \in DOMAIN e.tags : e.tags[k] = tag
                THEN /\ events' = [events EXCEPT ![IndexOf(events, name)].tags = list_remove(@, tag)]
                     /\ msg' = <<"Tag removed.">>
                ELSE /\ msg' = <<"Tag not found.">>
                     /\ UNCHANGED events
       ELSE /\ msg' = <<"Event not found.">>
            /\ UNCHANGED events
    /\ exc' = ""
    /\ summary' = <<>>
    /\ listed' = <<>>
    /\ UNCHANGED <<archived_events, today, file, sweep_vars, cal_vars>>

(***************************************************************************)
(* SearchSpec: tags are added and removed and the events searched by tag.  *)
(* The stored events are what load_tasks reads from a file, whose Tags     *)
(* line is kept in the case it was written in.                             *)
(***************************************************************************)
Vip == <<"v", "i", "p">>

\* What is typed at a tag prompt.
EnteredTags == {Vip, <<" ", "V", "i", "p">>, <<"v", "i">>, <<"v", "i", "p", "s">>}

SearchInit ==
    /\ \E ta, tb \in {<<>>, <<Vip>>, <<<<"V", "I", "P">>>>, <<<<"v", "i", "p", "s">>>>, <<<<"v", "i">>>>},
          tc \in {<<>>, <<Vip>>} :
          events = <<[Event("a", DateStr(Today0), NoRecurrence, <<>>, <<>>) EXCEPT !.tags = ta],
                     [Event("c", DateStr(Today0), NoRecurrence, <<>>, <<>>) EXCEPT !.tags = tc],
                     [Event("b", DateStr(Today0), NoRecurrence, <<>>, <<>>) EXCEPT !.tags = tb]>>
    /\ archived_events = <<[Event("z", DateStr(Today0), NoRecurrence, <<>>, <<>>) EXCEPT !.tags = <<Vip>>]>>
    /\ today = Today0
    /\ msg = <<>>
    /\ SweepIdle
    /\ CalIdle
    /\ ViewIdle

SearchNext ==
    \/ \E answers \in [1..Len(events) -> EnteredTags] : search_events_by_tag(answers)
    \/ \E name \in {"a", "b", "x"}, entered \in EnteredTags : add_tag(name, entered)
    \/ \E name \in {"a", "b", "x"}, entered \in EnteredTags : remove_tag(name, entered)

SearchSpec == SearchInit /\ [][SearchNext]_vars

(***************************************************************************)
(* Reminders.                                                              *)
(***************************************************************************)
\* What _input_valid_int returns under the check 0 <= x <= 365: an int in that
\* range, or None after five refused entries.
EnteredDays == {Days(0), Days(7), Days(365), NoneDays}

\* EventPlanner.edit_event, option 7 (Reminder)
edit_event_reminder_option(name, entered) ==
    /\ Has(events, name)
    /\ events' = [events EXCEPT ![IndexOf(events, name)].reminder_days = entered]
    /\ msg' = <<>>
    /\ exc' = ""
    /\ summary' = <<>>
    /\ listed' = <<>>
    /\ UNCHANGED <<archived_events, today, file, sweep_vars, cal_vars>>

\* EventPlanner.set_reminder: for an event that is found the first statement is
\* self._parse_date(e["date"]), and EventPlanner has no attribute _parse_date, so
\* the call raises AttributeError before days is looked at.
set_reminder(name, days) ==
    /\ IF name = "" \/ ~Has(events, name)
       THEN /\ msg' = <<IF name = "" THEN "Event name cannot be empty." ELSE "Event not found.">>
            /\ exc' = ""
       ELSE /\ msg' = <<>>
            /\ exc' = "AttributeError"
    /\ summary' = <<>>
    /\ listed' = <<>>
    /\ UNCHANGED <<events, archived_events, today, file, sweep_vars, cal_vars>>

(***************************************************************************)
(* ReminderSpec: the operations that write reminder_days.                  *)
(***************************************************************************)
ReminderInit == Init

ReminderNext ==
    \/ \E name \in Names \cup {""} :
          IF name = "" \/ Has(events, name)
          THEN create_event(name, EMPTY, NoRecurrence)
          ELSE \E date \in EnteredDates, entered \in EnteredDays :
                  create_event_full(name, date, NoRecurrence, Num(0), NoTime, NoTime, entered)
    \/ \E name \in Names : delete_event(name)
    \/ \E name \in Names, entered \in EnteredDays : edit_event_reminder_option(name, entered)
    \* the days argument of set_reminder: absent (None), or any int
    \/ \E name \in Names \cup {""}, days \in {NoneDays, Days(3), Days(0 - 1)} :
          set_reminder(name, days)

ReminderSpec == ReminderInit /\ [][ReminderNext]_vars

(***************************************************************************)
(* save_tasks and load_tasks (src/login_system.py). The file is the        *)
(* sequence of its lines; a line is its text up to the value and the value *)
(* that was formatted into it. Of an event the fields of this model are    *)
(* followed (notes, pinned, starred, category and priority are written and *)
(* read back as they are); the texts contain no ":" , "," or "||".         *)
(***************************************************************************)

\* save_tasks: the lines written for one event; a task line is
\* "- Task: {task['task']} || Status: {task['status']}"
event_lines(e) ==
    LET task_lines(tasks) ==
            [k \in DOMAIN tasks |->
                FileLine("- Task:", [left |-> tasks[k].task, right_label |-> "Status:",
                                     right |-> tasks[k].status])]
    IN  <<FileLine("=== Event:", e.name),
          FileLine("Date:", e.date),
          FileLine("Tags:", e.tags),
          FileLine("Reminder:", e.reminder_days),
          FileLine("StartTime:", e.start_time),
          FileLine("EndTime:", e.end_time),
          FileLine("Budget:", e.budget),
          FileLine("Recurrence:", e.recurrence),
          FileLine("ArchivedTasks:", "")>>
            \o task_lines(e.archived_tasks)
            \o <<FileLine("Tasks:", "")>>
            \o task_lines(e.tasks)

RECURSIVE file_lines(_, _)
\* save_tasks: "for event_name, event_data in events.items()", from entry i on
file_lines(d, i) ==
    IF i > Len(d) THEN <<>> ELSE event_lines(d[i]) \o file_lines(d, i + 1)

\* login_system.save_tasks(username, planner.events, voice_settings)
save_tasks ==
    /\ file' = file_lines(events, 1)
    /\ msg' = <<"Tasks saved successfully.">>
    /\ exc' = ""
    /\ summary' = <<>>
    /\ listed' = <<>>
    /\ UNCHANGED <<events, archived_events, today, sweep_vars, cal_vars>>

\* load_tasks on a task line: parts = line.split("||"); the status is what follows
\* the first ":" of parts[0] and the task is parts[1], the text "Status: <status>";
\* no other key is set ("(no key)").
loaded_task(val) ==
    LET task == CASE val.right = "Pending" -> "Status: Pending"
                  [] val.right = "Completed" -> "Status: Completed"
                  [] val.right = "In Progress" -> "Status: In Progress"
                  [] OTHER -> "Status: ..."
    IN  TaskFull(task, Text("(no key)"), [kind |-> "(no key)", v |-> 0], "(no key)", val.left)

\* load_tasks: the if/elif chain applied to one line. The Recurrence line is
\* str(dict) read by ast.literal_eval, which gives the dict back.
load_line(st, line) ==
    LET k == IndexOf(st.events, st.current)
        \* the dict a new event starts with
        loaded_default(name) ==
            EventWith(name, EMPTY, NoRecurrence, <<>>, <<>>, Num(0), NoTime, NoTime)
        \* [tag.strip() for tag in tag_line.split(",") if tag.strip()]
        loaded_tags(tags) ==
            SelectSeq([j \in DOMAIN tags |-> strip(tags[j])], LAMBDA t : t # <<>>)
        \* the text of a time line: None was written as the text "None"
        loaded_time(t) == IF t = NoneTime THEN [text |-> "'None'", minutes |-> 0] ELSE t
        \* float(text of the Budget line); ValueError gives 0
        loaded_budget(b) == IF b.kind = "float" THEN b ELSE Num(0)
    IN  CASE line.key = "=== Event:" ->
                [events |-> dict_set(st.events, line.val, loaded_default(line.val)),
                 current |-> line.val, reading_archived |-> FALSE]
          [] line.key = "Date:" -> [st EXCEPT !.events[k].date = line.val]
          [] line.key = "Tags:" -> [st EXCEPT !.events[k].tags = loaded_tags(line.val)]
          [] line.key = "Reminder Days:" ->
                [st EXCEPT !.events[k].reminder_days =
                               IF line.val.kind = "int" THEN line.val ELSE Days(0)]
          [] line.key = "StartTime:" -> [st EXCEPT !.events[k].start_time = loaded_time(line.val)]
          [] line.key = "EndTime:" -> [st EXCEPT !.events[k].end_time = loaded_time(line.val)]
          [] line.key = "Budget:" -> [st EXCEPT !.events[k].budget = loaded_budget(line.val)]
          [] line.key = "Recurrence:" -> [st EXCEPT !.events[k].recurrence = line.val]
          [] line.key = "ArchivedTasks:" -> [st EXCEPT !.reading_archived = TRUE]
          [] line.key = "Tasks:" -> [st EXCEPT !.reading_archived = FALSE]
          [] line.key = "- Task:" ->
                IF st.reading_archived
                THEN [st EXCEPT !.events[k].archived_tasks = Append(@, loaded_task(line.val))]
                ELSE [st EXCEPT !.events[k].tasks = Append(@, loaded_task(line.val))]
          [] OTHER -> st

RECURSIVE load_lines(_, _, _)
\* load_tasks: "for line in lines", from line i on
load_lines(lines, i, st) ==
    IF i > Len(lines) THEN st
    ELSE load_lines(lines, i + 1, load_line(st, lines[i]))

\* login_system.load_tasks(username, voice_settings): a new EventPlanner, filled
\* from the file; without a file it stays empty.
load_tasks ==
    /\ events' = load_lines(file, 1, [events |-> <<>>, current |-> "", reading_archived |-> FALSE]).events
    /\ archived_events' = <<>>
    /\ msg' = IF file = NoFile THEN <<"Task file not found.">> ELSE <<>>
    /\ exc' = ""
    /\ summary' = <<>>
    /\ listed' = <<>>
    /\ UNCHANGED <<today, file, sweep_vars, cal_vars>>

(***************************************************************************)
(* PersistSpec: a repository of one event is edited, saved and loaded.     *)
(***************************************************************************)
PersistInit ==
    /\ \E d \in {EMPTY, DateStr(D(2024, 3, 1))},
          r \in {NoRecurrence, Recurrence("weekly", 2, DateStr(D(2024, 12, 31)))},
          b \in {Num(0), Num(1000)},
          tasks, archived \in
              {<<>>, <<Task("t1", EMPTY)>>,
               <<TaskFull("t1", DateStr(D(2024, 3, 1)), Num(400), "High", "Completed")>>},
          tags \in {<<>>, <<Vip>>} :
          events = <<[EventWith("a", d, r, tasks, archived, b, NoTime, NoTime) EXCEPT !.tags = tags]>>
    /\ archived_events = <<>>
    /\ today = Today0
    /\ msg = <<>>
    /\ SweepIdle
    /\ CalIdle
    /\ ViewIdle

PersistNext ==
    \/ save_tasks
    \/ load_tasks
    \/ \E entered \in EnteredDays : edit_event_reminder_option("a", entered)
    \/ \E entered \in EnteredBudgets : edit_event_budget_option("a", entered)

PersistSpec == PersistInit /\ [][PersistNext]_vars

(***************************************************************************)
(* Claims about the repository operations (Spec).                          *)
(***************************************************************************)
HasDate(e) == e.date.text = "%Y-%m-%d"
BaseOf(e) == D(e.date.year, e.date.month, e.date.day)
Before(a, b) == ToOrdinal(a) < ToOrdinal(b)
DeadlineOf(t) == D(t.deadline.year, t.deadline.month, t.deadline.day)

\* C1 as stated: every active event whose recurrence is disabled has no active task
\* with a deadline later than the event's date.
C1_DeadlinesWithinEventDate ==
    \A i \in DOMAIN events :
        LET e == events[i]
        IN  ~e.recurrence.enabled =>
                \A k \in DOMAIN e.tasks :
                    e.tasks[k].deadline.text = "%Y-%m-%d" =>
                        ToOrdinal(DeadlineOf(e.tasks[k])) <= ToOrdinal(BaseOf(e))

InBoth == Keys(events) \cap Keys(archived_events)

UniqueKeys(d) == \A i, j \in DOMAIN d : d[i].name = d[j].name => i = j

\* C2 as stated: no event name is a key of both the active set and the archived
\* set at the same time.
C2_NeverInBoth == InBoth = {}

\* C2 amended: a name is a key at most once in each set, and it becomes a key of
\* both sets only by entering the active set (create_event or rename, which check
\* the active set alone) while it is archived; archive, restore and delete_event
\* never make a name a key of both.
C2_BothOnlyByReuse ==
    [][/\ UniqueKeys(events') /\ UniqueKeys(archived_events')
       /\ \A n \in InBoth' \ InBoth :
            ~Has(events, n) /\ Has(archived_events, n) /\ archived_events' = archived_events]_vars

\* C2 witness: an archived name was created again and is now a key of both sets.
C2_Witness ==
    /\ msg = <<"Event created!">>
    /\ Has(events, "a")
    /\ Has(archived_events, "a")

\* C10: add_tasks (interactive) and edit_task with deadline D on an event with date
\* E store D when the event is recurring or D <= E, and store the task with an
\* empty deadline when the event is not recurring and D > E; the task is never
\* rejected because of its deadline.
C10_DeadlineKeptOrCleared ==
    [][LET Stored(name, dl) ==
               LET e == Lookup(events, name)
               IN  IF e.recurrence.enabled
                      \/ ToOrdinal(D(dl.year, dl.month, dl.day)) <= ToOrdinal(BaseOf(e))
                   THEN dl ELSE EMPTY
       IN  /\ msg' \in {<<"Task added.">>, <<DeadlineWarning, "Task added.">>} =>
                \A name \in Names, dl \in EnteredDates :
                    (Has(events, name) /\ add_tasks(name, "t", dl)) =>
                        /\ Has(events', name)
                        /\ Lookup(events', name).tasks =
                               Append(Lookup(events, name).tasks, Task("t", Stored(name, dl)))
           /\ msg' \in {<<>>, <<DeadlineWarning>>} =>
                \A name \in Names, dl \in EnteredDates, index \in 1..MaxTasks :
                    (/\ Has(events, name)
                     /\ index \in DOMAIN Lookup(events, name).tasks
                     /\ edit_task_deadline(name, index, dl)) =>
                        /\ Has(events', name)
                        /\ Lookup(events', name).tasks =
                               [Lookup(events, name).tasks EXCEPT
                                    ![index].deadline = Stored(name, dl)]]_vars

\* C10 witness: a task was added to a non-recurring event with a deadline after the
\* event date: it is stored, with an empty deadline.
C10_Witness ==
    /\ msg = <<DeadlineWarning, "Task added.">>
    /\ \E i \in DOMAIN events :
          /\ ~events[i].recurrence.enabled
          /\ events[i].date = DateStr(Today0)
          /\ events[i].tasks = <<Task("t", EMPTY)>>

Entries(d) == {d[i] : i \in DOMAIN d}

\* C17: restoring an archived event whose name is a key of the active set is
\* rejected and leaves both sets exactly as they were; when the name is not
\* active, the event leaves the archived set and the same event data is in the
\* active set under the same name, every other entry staying where it was.
C17_RestoreRejectedOrMoved ==
    [][\A name \in Names :
          (Has(archived_events, name) /\ restore_event(name)) =>
              IF Has(events, name)
              THEN events' = events /\ archived_events' = archived_events
              ELSE /\ Entries(archived_events') =
                          {a \in Entries(archived_events) : a.name # name}
                   /\ Entries(events') =
                          Entries(events) \cup {a \in Entries(archived_events) : a.name = name}
                   /\ Len(events') = Len(events) + 1
                   /\ Len(archived_events') = Len(archived_events) - 1]_vars

\* C17 witness: a restore was refused because the name is active; the name is
\* still a key of both sets.
C17_Witness ==
    /\ msg = <<"Cannot restore. An event with this name already exists.">>
    /\ Has(events, "a")
    /\ Has(archived_events, "a")

\* C18: create_event with a name that is already a key of the active set, or with
\* an empty name, is rejected: the active set (the existing event's fields and
\* tasks included) and the archived set are unchanged.
C18_DuplicateOrEmptyNameRejected ==
    [][msg' \in {<<"Event name cannot be empty.">>, <<"Event already exists.">>} =>
          \A name \in Names \cup {""} :
              ((name = "" \/ Has(events, name))
                  /\ \E date \in EnteredDates, r \in EnteredRecurrences :
                        create_event(name, date, r)) =>
                  /\ events' = events
                  /\ archived_events' = archived_events]_vars

\* C18 witness: create_event was refused for a name whose event holds a task.
C18_Witness ==
    /\ msg = <<"Event already exists.">>
    /\ \E i \in DOMAIN events : events[i].tasks # <<>>

HasTime(t) == t.text = "%H:%M"

\* C19 as stated: every active event that has both a start time and an end time
\* has its end time strictly after its start time.
C19_EndAfterStart ==
    \A i \in DOMAIN events :
        (HasTime(events[i].start_time) /\ HasTime(events[i].end_time)) =>
            events[i].end_time.minutes > events[i].start_time.minutes

\* C26 as stated: every active event whose recurrence is enabled with an until date
\* has an until that is not before the event's date.
C26_UntilNotBeforeDate ==
    \A i \in DOMAIN events :
        LET e == events[i]
        IN  (/\ e.recurrence.enabled
             /\ e.recurrence.until.text = "%Y-%m-%d"
             /\ HasDate(e)) =>
                ~Before(D(e.recurrence.until.year, e.recurrence.until.month, e.recurrence.until.day),
                        BaseOf(e))

\* C27: a rename (edit_event option 1) to the empty name or to a name that is a key
\* of the active set, the event's own name included, leaves the active set as it
\* is; any other rename leaves the event's data, tasks and archived tasks as they
\* were under the new name, the old name is no key any more, the other events and
\* the archived set are untouched and the active set has as many events as before.
C27_RenameRejectedOrMoved ==
    [][msg' \in {<<>>, <<"Event name cannot be empty.">>, <<"Event with that name already exists.">>} =>
       \A name \in Names, new_name \in Names \cup {""} :
          edit_event_name(name, new_name) =>
             IF new_name = "" \/ Has(events, new_name)
             THEN events' = events /\ archived_events' = archived_events /\ msg' # <<>>
             ELSE /\ ~Has(events', name)
                  /\ Has(events', new_name)
                  /\ Lookup(events', new_name) = [Lookup(events, name) EXCEPT !.name = new_name]
                  /\ Len(events') = Len(events)
                  /\ \A other \in Keys(events) \ {name} :
                        Has(events', other) /\ Lookup(events', other) = Lookup(events, other)
                  /\ archived_events' = archived_events]_vars

\* C27 witness: a rename was refused because the new name is a key of the active
\* set; both events are there and one holds a task.
C27_Witness ==
    /\ msg = <<"Event with that name already exists.">>
    /\ Has(events, "a")
    /\ Has(events, "b")
    /\ \E i \in DOMAIN events : events[i].tasks # <<>>

\* C28 as stated: an archive operation on an existing active event leaves the
\* number of active events plus the number of archived events as it was.
C28_ArchiveKeepsCount ==
    [][\A name \in Names :
          (Has(events, name) /\ archive_event(name)) =>
              Len(events') + Len(archived_events') = Len(events) + Len(archived_events)]_vars

\* C25 as stated: the reminder_days of every active event is an integer from 0 to
\* 365.
C25_ReminderDaysInRange ==
    \A i \in DOMAIN events :
        /\ events[i].reminder_days.kind = "int"
        /\ events[i].reminder_days.v \in 0..365

\* C24 as stated: load_tasks applied to the file save_tasks wrote for the events
\* gives events that are field for field the saved ones: reminder_days, recurrence
\* and every active and archived task with its description, status, deadline,
\* priority and budget included.
C24_SaveLoadRoundTrip ==
    [][(file = file_lines(events, 1) /\ load_tasks) => events' = events]_vars

(***************************************************************************)
(* Claims about sort_tasks (SortSpec).                                     *)
(***************************************************************************)
ValidDeadline(t) == t.deadline.text = "%Y-%m-%d"
NoDeadline(t) == t.deadline = EMPTY
SameDeadline(t, u) ==
    \/ NoDeadline(t) /\ NoDeadline(u)
    \/ ValidDeadline(t) /\ ValidDeadline(u) /\ DeadlineOf(t) = DeadlineOf(u)

\* Where the task with this description stands in the list.
PlaceOf(l, t) == CHOOSE i \in DOMAIN l : l[i].task = t.task

ListOf(evs, task_type) ==
    IF task_type = "1" THEN evs[1].tasks ELSE evs[1].archived_tasks

\* C11: after a sort by deadline the list holds the same tasks, every task with a
\* valid deadline stands before every task without a deadline, the valid
\* deadlines are in non-decreasing order, and two tasks with equal deadlines (or
\* both without one) keep the order they had before the sort.
C11_DeadlineSortOrder ==
    [][\A task_type \in {"1", "2"} :
          (sort_tasks("a", task_type, "1") /\ exc' = "" /\ ListOf(events, task_type) # <<>>) =>
              LET before == ListOf(events, task_type)
                  after == ListOf(events', task_type)
              IN  /\ Len(after) = Len(before)
                  /\ Entries(after) = Entries(before)
                  /\ \A i, j \in DOMAIN after :
                        /\ (ValidDeadline(after[i]) /\ NoDeadline(after[j])) => i < j
                        /\ (i < j /\ ValidDeadline(after[i]) /\ ValidDeadline(after[j])) =>
                              ~Before(DeadlineOf(after[j]), DeadlineOf(after[i]))
                        /\ (i < j /\ SameDeadline(after[i], after[j])) =>
                              PlaceOf(before, after[i]) < PlaceOf(before, after[j])]_vars

\* C11 witness: a list that began with a task without a deadline, followed by two
\* tasks with the same deadline, has been sorted by deadline.
C11_Witness ==
    /\ msg = <<"Tasks sorted.">>
    /\ exc = ""
    /\ Len(events[1].tasks) = 3
    /\ events[1].tasks[1].task = "t2" /\ events[1].tasks[1].deadline = DateStr(D(2024, 3, 1))
    /\ events[1].tasks[2].task = "t3" /\ events[1].tasks[2].deadline = DateStr(D(2024, 3, 1))
    /\ events[1].tasks[3].task = "t1" /\ events[1].tasks[3].deadline = EMPTY

\* C12 as stated: a sort by deadline of a list that holds a task whose deadline is
\* a non-empty string that is not a date completes and places that task last, and
\* a sort by budget of a list that holds a task whose budget is not a number
\* completes.
C12_SortToleratesMalformed ==
    [][\A task_type \in {"1", "2"} :
          LET before == ListOf(events, task_type)
              after == ListOf(events', task_type)
              Malformed(t) == Truthy(t.deadline) /\ ~ValidDeadline(t)
          IN  /\ (sort_tasks("a", task_type, "1") /\ \E i \in DOMAIN before : Malformed(before[i])) =>
                    /\ exc' = ""
                    /\ Malformed(after[Len(after)])
              /\ (sort_tasks("a", task_type, "4")
                    /\ \E i \in DOMAIN before : before[i].budget.kind # "float") =>
                    exc' = ""]_vars

(***************************************************************************)
(* Claims about budgets (BudgetSpec). A summary is on display only in the  *)
(* state view_event_budget_summary left, so the event it is about is the   *)
(* event as stored.                                                        *)
(***************************************************************************)
RECURSIVE ReadableSum(_, _)
\* The sum of the budgets that are numbers, over the tasks at positions I.
ReadableSum(tasks, I) ==
    IF I = {} THEN 0
    ELSE LET i == CHOOSE j \in I : TRUE
         IN  (IF tasks[i].budget.kind = "float" THEN tasks[i].budget.v ELSE 0)
                 + ReadableSum(tasks, I \ {i})

\* C13: a summary that view_event_budget_summary produced reports as total the sum of
\* the budgets of the event's active tasks only (the archived tasks add nothing), as
\* remaining the event budget less that total, and the remaining amount is negative
\* exactly when the total exceeds the event budget.
C13_SummaryTotals ==
    summary # <<>> =>
        LET e == Lookup(events, "a")
            s == summary[1]
        IN  /\ s.event_budget = e.budget.v
            /\ s.total = ReadableSum(e.tasks, DOMAIN e.tasks)
            /\ s.remaining = e.budget.v - s.total
            /\ (s.remaining < 0 <=> s.total > e.budget.v)

\* C13 witness: event budget 1000, active tasks budgeted 400 and 800: the summary
\* shows total 1200 and remaining -200.
C13_Witness ==
    /\ summary # <<>>
    /\ Has(events, "a")
    /\ LET e == Lookup(events, "a")
       IN  /\ e.budget = Num(1000)
           /\ Len(e.tasks) = 2
           /\ e.tasks[1].budget = Num(400)
           /\ e.tasks[2].budget = Num(800)
    /\ summary[1].total = 1200
    /\ summary[1].remaining = 0 - 200

\* C14 as stated: the summary shows a usage percentage exactly when the event budget
\* is above 0, and the percentage is min(999, total / budget * 100 rounded to the
\* nearest whole number).
C14_UsageRounded ==
    summary # <<>> =>
        LET s == summary[1]
            Abs(x) == IF x < 0 THEN 0 - x ELSE x
        IN  /\ (s.usage # <<>>) <=> (s.event_budget > 0)
            /\ s.usage # <<>> =>
                  \/ 2 * Abs(100 * s.total - s.usage[1] * s.event_budget) <= s.event_budget
                  \/ (s.usage[1] = 999 /\ 2 * 100 * s.total >= (2 * 999 - 1) * s.event_budget)

\* C15 as stated: view_event_budget_summary on an event whose own budget is a number
\* never aborts: it completes with a summary whose total leaves out every task budget
\* that cannot be read as a number.
C15_UnreadableBudgetsSkipped ==
    [][(/\ Has(events, "a")
        /\ Lookup(events, "a").budget.kind = "float"
        /\ view_event_budget_summary("a"))
       => (/\ exc' = ""
           /\ summary' # <<>>
           /\ summary'[1].total = ReadableSum(Lookup(events, "a").tasks,
                                              DOMAIN Lookup(events, "a").tasks))]_vars

\* C16 as stated: whatever budget operations ran, the budget of every active event
\* and of every one of its tasks is a number that is not below 0.
C16_BudgetsNonNegative ==
    \A i \in DOMAIN events :
        LET NonNegative(b) == b.kind = "float" /\ b.v >= 0
        IN  /\ NonNegative(events[i].budget)
            /\ \A k \in DOMAIN events[i].tasks : NonNegative(events[i].tasks[k].budget)

(***************************************************************************)
(* Claims about search_events (SearchSpec).                                *)
(***************************************************************************)
\* Two tags are equal ignoring case.
SameIgnoringCase(a, b) ==
    /\ Len(a) = Len(b)
    /\ \A i \in DOMAIN a : lower_char(a[i]) = lower_char(b[i])

\* The active events that carry a tag equal to t ignoring case, in the order of
\* the active set.
Tagged(t) ==
    SelectSeq(events, LAMBDA e : \E k \in DOMAIN e.tags : SameIgnoringCase(e.tags[k], t))

\* C22: a search by tag in which the same tag t is typed at every prompt lists
\* exactly the names of the active events one of whose tags equals t ignoring case,
\* in the order of the active set; a tag that only contains t does not match, and
\* archived events are not listed.
C22_SearchByTagExact ==
    [][\A t \in EnteredTags :
          search_events_by_tag([i \in 1..Len(events) |-> t]) =>
              listed' = [i \in 1..Len(Tagged(strip(t))) |-> Tagged(strip(t))[i].name]]_vars

\* C22 witness: a search for "vip" listed c and b, in that order, and not a, whose
\* only tag is "vips"; b's tag is stored as "VIP".
C22_Witness ==
    /\ listed = <<"c", "b">>
    /\ msg = <<"Here are your matching events.">>
    /\ events[1].tags = <<<<"v", "i", "p", "s">>>>
    /\ events[2].tags = <<Vip>>
    /\ events[3].tags = <<<<"V", "I", "P">>>>

(***************************************************************************)
(* Claims about the tasks of an event (TaskSpec).                          *)
(***************************************************************************)
\* The deadline of a task is present, is the text of a date and lies 0 to 3 days
\* after today.
DueWithinThreeDays(t) ==
    /\ t.deadline.text = "%Y-%m-%d"
    /\ ToOrdinal(DeadlineOf(t)) - ToOrdinal(today) \in 0..3

\* The active tasks of the active events, as (event, position) pairs.
ActiveTasks == {<<i, k>> \in (DOMAIN events) \X (1..(MaxTasks + 1)) : k \in DOMAIN events[i].tasks}

\* C23: check_task_deadlines reports an active task of an active event if and only
\* if its deadline is a date 0 to 3 days after today, once each; a task whose
\* deadline is missing or does not parse is passed over and the tasks after it are
\* still scanned; archived tasks and tasks of archived events are not reported.
C23_DueTasksReported ==
    [][check_task_deadlines =>
          LET Line(p) == [task |-> events[p[1]].tasks[p[2]].task,
                          name |-> events[p[1]].name,
                          deadline |-> events[p[1]].tasks[p[2]].deadline]
              Due == {p \in ActiveTasks : DueWithinThreeDays(events[p[1]].tasks[p[2]])}
          IN  /\ \A p \in ActiveTasks : (p \in Due) <=> (\E j \in DOMAIN listed' : listed'[j] = Line(p))
              /\ \A j \in DOMAIN listed' : \E p \in Due : listed'[j] = Line(p)
              /\ Len(listed') = Cardinality(Due)]_vars

\* C23 witness: t1 is due today and was reported, and so was u1 of the next event,
\* after t2, whose deadline "soon" does not parse; the archived t3, due today, was
\* not reported.
C23_Witness ==
    /\ Len(listed) = 2
    /\ listed[1].task = "t1"
    /\ listed[2].task = "u1"
    /\ Len(events[1].tasks) = 2
    /\ events[1].tasks[1] = Task("t1", DateStr(Today0))
    /\ events[1].tasks[2] = Task("t2", Text("soon"))
    /\ events[1].archived_tasks = <<Task("t3", DateStr(Today0))>>

\* A list without its entry i; the others keep their order.
Without(l, i) == [k \in 1..(Len(l) - 1) |-> IF k < i THEN l[k] ELSE l[k + 1]]

\* How often x occurs in l.
Count(l, x) == Cardinality({k \in DOMAIN l : l[k] = x})

\* One task went from list from to list to: entry i left, the others kept their
\* order, and it is the last entry of to.
MovedOne(from, to, from2, to2, i) ==
    /\ from2 = Without(from, i)
    /\ to2 = Append(to, from[i])

\* C29: archive_task with a task number i in range moves task i from tasks to the
\* end of archived_tasks, and restore_archived_task moves archived task i to the end
\* of tasks; the other tasks keep their order, every task occurs in the two lists
\* together as often as before, and the other events are untouched; with a number
\* out of range, or an entry that is not a number, nothing changes. Archiving task
\* i and restoring it leaves archived_tasks as it was and tasks with task i last.
C29_TaskMovesConserve ==
    [][\A name \in {"a", "b"}, index_input \in IndexInputs :
          LET e == Lookup(events, name)
              e2 == Lookup(events', name)
              i == index_input.int
              Others == \A j \in DOMAIN events : events[j].name # name => events'[j] = events[j]
              Conserved == \A x \in {e.tasks[k] : k \in DOMAIN e.tasks}
                                    \cup {e.archived_tasks[k] : k \in DOMAIN e.archived_tasks} :
                              Count(e.tasks, x) + Count(e.archived_tasks, x)
                                  = Count(e2.tasks, x) + Count(e2.archived_tasks, x)
          IN  /\ archive_task(name, index_input) =>
                    IF index_input.isdigit /\ i \in DOMAIN e.tasks
                    THEN /\ MovedOne(e.tasks, e.archived_tasks, e2.tasks, e2.archived_tasks, i)
                         /\ Conserved /\ Others /\ Len(events') = Len(events)
                    ELSE events' = events
              /\ restore_archived_task(name, index_input) =>
                    IF index_input.isdigit /\ i \in DOMAIN e.archived_tasks
                    THEN /\ MovedOne(e.archived_tasks, e.tasks, e2.archived_tasks, e2.tasks, i)
                         /\ Conserved /\ Others /\ Len(events') = Len(events)
                    ELSE events' = events
              /\ \A k \in DOMAIN e.tasks :
                    LET a == pop_append(e.tasks, e.archived_tasks, k - 1)
                        r == pop_append(a.dst, a.src, Len(a.dst) - 1)
                    IN  /\ r.src = e.archived_tasks
                        /\ r.dst = Append(Without(e.tasks, k), e.tasks[k])]_vars

\* C29 witness: t1 was archived and restored: it is now the last active task, after
\* t2, and the archived tasks are as they were.
C29_Witness ==
    /\ msg = <<"Task restored.">>
    /\ Len(events[1].tasks) = 2
    /\ events[1].tasks[1].task = "t2"
    /\ events[1].tasks[2].task = "t1"
    /\ events[1].archived_tasks = <<Task("t3", DateStr(Today0))>>

(***************************************************************************)
(* What the sweep claims are stated against: the window as a set of dates, *)
(* the occurrences of a rule, the notifications an event got.              *)
(***************************************************************************)
WindowDates == {FromOrdinal(ToOrdinal(today) + k) : k \in 0..7}


RECURSIVE Reaches(_, _, _, _)
\* Whether advancing cur by interval months or years, zero or more times, gives d.
Reaches(cur, d, freq, interval) ==
    IF cur = d THEN TRUE
    ELSE IF interval = 0 THEN FALSE
    ELSE IF (interval > 0 /\ Before(d, cur)) \/ (interval < 0 /\ Before(cur, d)) THEN FALSE
    ELSE LET a == IF freq = "monthly" THEN add_months(cur, interval)
                  ELSE add_years(cur, interval)
         IN  a.exc = "" /\ Reaches(a.date, d, freq, interval)

\* Whether d is an occurrence of the rule: the base date advanced k >= 0 times by
\* interval units of the frequency (a rule that cannot advance has its base only).
IsOccurrence(base, rule, d) ==
    LET unit == IF rule.frequency = "weekly" THEN 7 ELSE 1
        step == unit * rule.interval
        gap == ToOrdinal(d) - ToOrdinal(base)
    IN  CASE rule.frequency \in {"daily", "weekly"} ->
                IF step = 0 THEN d = base
                ELSE IF step > 0 THEN gap >= 0 /\ gap % step = 0
                ELSE gap <= 0 /\ (0 - gap) % (0 - step) = 0
          [] rule.frequency \in {"monthly", "yearly"} ->
                Reaches(base, d, rule.frequency, rule.interval)
          [] OTHER -> d = base

\* d2 comes before d in the rule's sequence of occurrences.
Precedes(rule, d2, d) == IF rule.interval < 0 THEN Before(d, d2) ELSE Before(d2, d)

Notes(name) == SelectSeq(out, LAMBDA n : n.name = name)
Reported(name) == \E k \in DOMAIN out : out[k].name = name

\* The limit date the claims name: until, or today + 365 when until is absent.
ClaimLimit(rule) ==
    IF rule.until \in {NONE, EMPTY} THEN Ok(FromOrdinal(ToOrdinal(today) + 365))
    ELSE IF rule.until.text = "%Y-%m-%d" THEN Ok(D(rule.until.year, rule.until.month, rule.until.day))
    ELSE Raise("no date")


\* C3 as stated: the sweep terminates for every stored rule, valid or not.
\* (With interval 0 while_step assigns next_date its own value: the while loop of
\* the code keeps running on an unchanged state, which is a behaviour that never
\* reaches "done".)
C3_SweepTerminates == <>(pc = "done")

\* C4 as stated: a recurring event whose until is the 'No end' sentinel is
\* enumerated up to today + 365, so it is reported whenever one of its occurrences
\* lies in [today, today+7].
C4_NoEndReported ==
    pc = "done" =>
        \A i \in DOMAIN events :
            LET e == events[i]
            IN  (/\ e.recurrence.enabled
                 /\ e.recurrence.until = NO_END
                 /\ HasDate(e)
                 /\ \E d \in WindowDates : IsOccurrence(BaseOf(e), e.recurrence, d))
                => Reported(e.name)

C6_NonRecurringWindow ==
    pc = "done" =>
        /\ \A i \in DOMAIN events :
              LET e == events[i]
              IN  (~e.recurrence.enabled /\ HasDate(e)) =>
                      /\ Reported(e.name) <=> BaseOf(e) \in WindowDates
                      /\ Len(Notes(e.name)) <= 1
        /\ \A j \in DOMAIN archived_events : ~Reported(archived_events[j].name)

\* C6 witness: an event exactly seven days ahead was reported, while the archived
\* event dated tomorrow was not.
C6_Witness ==
    /\ pc = "done"
    /\ events[1].date = DateStr(D(2024, 3, 3))
    /\ ~events[1].recurrence.enabled
    /\ Reported("a")
    /\ archived_events[1].date = DateStr(D(2024, 2, 26))
    /\ ~Reported("z")

UnknownFrequency(e) ==
    e.recurrence.enabled /\ e.recurrence.frequency \notin Frequencies

StepDays(rule) ==
    CASE rule.frequency = "daily" -> rule.interval
      [] rule.frequency = "weekly" -> 7 * rule.interval
      [] rule.frequency = "monthly" -> 28 * rule.interval
      [] OTHER -> 365 * rule.interval

\* A valid rule: a recognized frequency, interval >= 1, until absent or a date
\* not before the base date.
ValidRule(e) ==
    /\ HasDate(e)
    /\ e.recurrence.enabled
    /\ e.recurrence.frequency \in Frequencies
    /\ e.recurrence.interval >= 1
    /\ \/ e.recurrence.until = NONE
       \/ /\ e.recurrence.until.text = "%Y-%m-%d"
          /\ ~Before(D(e.recurrence.until.year, e.recurrence.until.month,
                       e.recurrence.until.day), BaseOf(e))

\* C20 as stated: for a valid rule the enumeration run for one recurring event
\* goes through no more than ceil(365 / stepDays) + 1 dates, whatever the base date.
C20_EnumerationBounded ==
    \A i \in DOMAIN events :
        (\/ pc = "while" /\ i = idx
         \/ pc \in {"for", "done"} /\ i = idx - 1) =>
            (ValidRule(events[i]) =>
                n_dates <= ((365 + StepDays(events[i].recurrence) - 1)
                                \div StepDays(events[i].recurrence)) + 1)

\* The until of a rule, when it is a date.
HasUntil(e) == e.recurrence.until.text = "%Y-%m-%d"
UntilOf(e) == D(e.recurrence.until.year, e.recurrence.until.month, e.recurrence.until.day)

\* C21: the enumeration of a recurring event starts at the event's base date; each
\* advance of a daily rule moves next_date by exactly interval days and each advance
\* of a weekly rule by exactly 7 * interval days; a date after until is neither
\* handled by the loop body nor reported.
C21_DailyWeeklySteps ==
    [][/\ (pc = "for" /\ pc' = "while") => next_date' = BaseOf(events[idx])
       /\ (pc = "while" /\ pc' = "while") =>
             LET e == events[idx]
                 step == ToOrdinal(next_date') - ToOrdinal(next_date)
             IN  /\ e.recurrence.frequency = "daily" => step = e.recurrence.interval
                 /\ e.recurrence.frequency = "weekly" => step = 7 * e.recurrence.interval
                 /\ HasUntil(e) => ~Before(UntilOf(e), next_date)
       /\ (pc = "while" /\ Len(out') > Len(out)) =>
             /\ out'[Len(out')].date = next_date
             /\ HasUntil(events[idx]) => ~Before(UntilOf(events[idx]), next_date)]_vars

\* C21 witness: a rule of every 2 weeks based 2024-01-31 with until 2024-02-27 has
\* advanced once, to 2024-02-14.
C21_Witness ==
    /\ pc = "while"
    /\ events[idx].recurrence.frequency = "weekly"
    /\ events[idx].recurrence.interval = 2
    /\ BaseOf(events[idx]) = D(2024, 1, 31)
    /\ HasUntil(events[idx])
    /\ UntilOf(events[idx]) = D(2024, 2, 27)
    /\ next_date = D(2024, 2, 14)
    /\ n_dates = 1

(***************************************************************************)
(* Calendar facts the claims are stated against, written independently of  *)
(* the code's day table.                                                   *)
(***************************************************************************)
LeapRule(y) == (y % 400 = 0) \/ (y % 4 = 0 /\ y % 100 # 0)

LastDayOfMonth(y, m) ==
    CASE m \in {4, 6, 9, 11} -> 30
      [] m = 2 -> IF LeapRule(y) THEN 29 ELSE 28
      [] OTHER -> 31

YearInRange(y) == y >= 1 /\ y <= 9999

\* C30: in the loop of a monthly rule each occurrence is the previous occurrence
\* moved on by interval months, with the previous occurrence's day cut to the length
\* of the new month: the day of the month never increases along the sequence and
\* never exceeds the base date's day, so a day lost to a shorter month does not
\* come back.
C30_MonthlyDayNeverIncreases ==
    [][(pc = "while" /\ pc' = "while" /\ events[idx].recurrence.frequency = "monthly") =>
          /\ 12 * next_date'.year + next_date'.month
                = 12 * next_date.year + next_date.month + events[idx].recurrence.interval
          /\ next_date'.day = Min(next_date.day, LastDayOfMonth(next_date'.year, next_date'.month))
          /\ next_date'.day <= next_date.day
          /\ next_date'.day <= BaseOf(events[idx]).day]_vars

\* C30 witness: a rule of every 2 months based 2024-01-31 was cut to day 30 in
\* September and is at 2025-01-30, in a month of 31 days.
C30_Witness ==
    /\ pc = "while"
    /\ events[idx].recurrence.frequency = "monthly"
    /\ events[idx].recurrence.interval = 2
    /\ BaseOf(events[idx]) = D(2024, 1, 31)
    /\ next_date = D(2025, 1, 30)

\* C8: add_months(d, n), for a result year within range, never raises and returns
\* the date whose month index 12*year + (month-1) is that of d plus n, with
\* 1 <= month <= 12, and whose day is min(d.day, last day of the target month);
\* add_months(2024-01-31, 1) = 2024-02-29 and add_months(2023-01-31, 1) = 2023-02-28.
C8_AddMonths ==
    cal_op = "add_months" =>
        LET k == cal_date.month - 1 + cal_n
            r == cal_res.date
        IN  /\ YearInRange(cal_date.year + (k \div 12)) =>
                /\ cal_res.exc = ""
                /\ r.month >= 1 /\ r.month <= 12
                /\ 12 * r.year + (r.month - 1) = 12 * cal_date.year + k
                /\ r.day = Min(cal_date.day, LastDayOfMonth(r.year, r.month))
            /\ (cal_date = D(2024, 1, 31) /\ cal_n = 1) => r = D(2024, 2, 29)
            /\ (cal_date = D(2023, 1, 31) /\ cal_n = 1) => r = D(2023, 2, 28)

\* C8 witness: Jan 31 of a leap year plus one month was clamped to Feb 29.
C8_Witness ==
    /\ cal_op = "add_months"
    /\ cal_date = D(2024, 1, 31) /\ cal_n = 1
    /\ cal_res = Ok(D(2024, 2, 29))

\* C9 as stated: add_years(d, n) never raises, for every valid d and integer n, and
\* returns year d.year+n with the same month and day, Feb 29 becoming Feb 28 in a
\* non-leap target year.
C9_AddYearsAnyShift ==
    cal_op = "add_years" =>
        /\ cal_res.exc = ""
        /\ cal_res.date.year = cal_date.year + cal_n

\* C9 amended: the same provided the target year d.year+n lies in 1..9999 (the
\* range of datetime.date); add_years(2024-02-29, 1) = 2025-02-28.
C9_AddYears ==
    (cal_op = "add_years" /\ YearInRange(cal_date.year + cal_n)) =>
        LET y == cal_date.year + cal_n
            feb29 == cal_date.month = 2 /\ cal_date.day = 29
        IN  /\ cal_res.exc = ""
            /\ cal_res.date = IF feb29 /\ ~LeapRule(y) THEN D(y, 2, 28)
                              ELSE D(y, cal_date.month, cal_date.day)
            /\ (cal_date = D(2024, 2, 29) /\ cal_n = 1) => cal_res.date = D(2025, 2, 28)

\* C9 witness: Feb 29 shifted into a non-leap year gave Feb 28.
C9_Witness ==
    /\ cal_op = "add_years"
    /\ cal_date = D(2024, 2, 29) /\ cal_n = 1
    /\ cal_res = Ok(D(2025, 2, 28))

=============================================================================
